---- MODULE Spec2Model ----
(***************************************************************************)
(* Model of the client-chat-platform worker (worker/src/index.ts, the      *)
(* revision with rate limits and daily budgets): the bot configuration     *)
(* store and its admin upsert, and the /api/chat request pipeline.         *)
(*                                                                         *)
(* Strings that the code only compares are string tokens.  Strings that    *)
(* the code parses with `new URL` are records [ok, scheme, host, port,     *)
(* path], where ok says whether `new URL` accepts the string.  Texts whose *)
(* content is never inspected are modelled by their length.  Time is in    *)
(* whole seconds (Date.now() / 1000).                                      *)
(***************************************************************************)
EXTENDS Integers, Sequences, FiniteSets, TLC

(***************************************************************************)
(* Hard global caps                                                        *)
(***************************************************************************)
GLOBAL_MAX_TOKENS == 1024
GLOBAL_MAX_TURNS == 30
GLOBAL_MAX_CHARS_PER_MESSAGE == 8000
GLOBAL_MAX_SYSTEM_CHARS == 30000
GLOBAL_MAX_TOTAL_INPUT_CHARS == 75000
GLOBAL_RAG_MAX_URLS == 5
GLOBAL_RAG_MAX_TOPK == 8
GLOBAL_RAG_MAX_CHUNK_CHARS == 2000
GLOBAL_RAG_EMBED_MAX_CHUNKS_PER_PAGE == 24
DaySeconds == 86400

Max2(a, b) == IF a >= b THEN a ELSE b
Min2(a, b) == IF a <= b THEN a ELSE b

(***************************************************************************)
(* JSON scalars of a request body.  t is the JavaScript type as clampInt   *)
(* sees it: "undef" (missing), "num" (a finite number, v in tenths),       *)
(* "nan" (NaN or an infinity), "str" (a string Number() parses, v in       *)
(* tenths; the empty string parses as 0), "badstr" (a string Number()      *)
(* turns into NaN), "other" (boolean, null, object).                       *)
(***************************************************************************)
J(t, v) == [t |-> t, v |-> v]
JUndef == J("undef", 0)

\* Math.trunc on a number given in tenths
Trunc(v10) == IF v10 >= 0 THEN v10 \div 10 ELSE -((-v10) \div 10)

\* clampInt without the upper bound
clampIntNoMax(n, def, min, max) ==
  IF n.t \in {"num", "str"} THEN Max2(min, Trunc(n.v)) ELSE def

\* clampInt(n, def, min, max): def is returned as it is when n is not a
\* finite number.
clampInt(n, def, min, max) ==
  IF n.t \in {"num", "str"} THEN Max2(min, Min2(max, Trunc(n.v))) ELSE def

(***************************************************************************)
(* URL-like strings.                                                       *)
(***************************************************************************)
Str(ok, scheme, host, port, path) ==
  [ok |-> ok, scheme |-> scheme, host |-> host, port |-> port, path |-> path]
EmptyStr == Str(FALSE, "", "", 0, "")
\* the string "null", the serialization of an opaque origin
NullStr == Str(FALSE, "", "null", 0, "")

DefaultPort(scheme) == IF scheme = "https" THEN 443 ELSE IF scheme = "http" THEN 80 ELSE 0

\* new URL(s).origin, for a string s that parses
UrlOrigin(s) ==
  IF s.scheme \in {"http", "https"}
  THEN Str(TRUE, s.scheme, s.host, IF s.port = DefaultPort(s.scheme) THEN 0 ELSE s.port, "")
  ELSE NullStr

\* new URL(s).toString(), for a string s that parses
UrlToString(s) ==
  Str(TRUE, s.scheme, s.host, IF s.port = DefaultPort(s.scheme) THEN 0 ELSE s.port,
      IF s.path = "" /\ s.scheme \in {"http", "https"} THEN "/" ELSE s.path)

RECURSIVE Dedupe(_)
\* Array.from(new Set(out)): first occurrences, in order
Dedupe(s) ==
  IF s = <<>> THEN <<>>
  ELSE LET h == s[Len(s)]
           r == Dedupe(SubSeq(s, 1, Len(s) - 1))
       IN IF \E i \in 1..Len(r) : r[i] = h THEN r ELSE Append(r, h)

RECURSIVE MapOrigins(_, _)
\* the loop of sanitizeOrigins: out holds at most max entries
MapOrigins(list, max) ==
  IF list = <<>> \/ max <= 0 THEN <<>>
  ELSE IF list[1].ok
       THEN <<UrlOrigin(list[1])>> \o MapOrigins(Tail(list), max - 1)
       ELSE MapOrigins(Tail(list), max)

\* sanitizeOrigins(origins): v = [arr |-> is it an array, list |-> its strings]
sanitizeOrigins(v) == IF ~v.arr THEN <<>> ELSE Dedupe(MapOrigins(v.list, 25))

RECURSIVE sanitizeUrlLoop(_, _)
sanitizeUrlLoop(list, max) ==
  IF list = <<>> \/ max <= 0 THEN <<>>
  ELSE IF list[1].ok /\ list[1].scheme \in {"http", "https"}
       THEN <<UrlToString(list[1])>> \o sanitizeUrlLoop(Tail(list), max - 1)
       ELSE sanitizeUrlLoop(Tail(list), max)

\* sanitizeUrlList(urls, max = 50)
sanitizeUrlList(v) == IF ~v.arr THEN <<>> ELSE sanitizeUrlLoop(v.list, 50)

\* isOriginAllowed comparing the header as it is sent
isOriginAllowedExact(origin, allowedOrigins) ==
  IF origin = EmptyStr THEN FALSE
  ELSE IF allowedOrigins = <<>> THEN TRUE
  ELSE \E i \in 1..Len(allowedOrigins) : allowedOrigins[i] = origin

\* isOriginAllowed(origin, allowedOrigins)
isOriginAllowed(origin, allowedOrigins) ==
  IF origin = EmptyStr THEN FALSE
  ELSE IF allowedOrigins = <<>> THEN TRUE
  ELSE IF ~origin.ok THEN FALSE
  ELSE \E i \in 1..Len(allowedOrigins) : allowedOrigins[i] = UrlOrigin(origin)

(***************************************************************************)
(* Bot configuration records.                                              *)
(*                                                                         *)
(* A stored record (BotConfig) has the fields below.  An optional string   *)
(* field holds Undefined when the JSON has no such field.  dailyBudget and *)
(* actions carry `set` = FALSE when the JSON has no such object.           *)
(* siteName, contactUrl, model, leadMode, qualifyingQuestions and          *)
(* ragEmbeddingModel only shape the prompt text and are left out.          *)
(***************************************************************************)
Undefined == "<undefined>"

ActionTypes == {"open_contact", "create_lead", "webhook", "none"}

NoBudget == [set |-> FALSE, maxRequestsPerDay |-> 0, maxTokensPerDay |-> 0]
NoActions == [set |-> FALSE, actionsEnabled |-> FALSE, webhookUrl |-> EmptyStr,
              allowedActionTypes |-> {}]

\* what `existing?.field` reads when there is no usable existing record
NoExisting ==
  [isCfg |-> FALSE, botId |-> "", tone |-> Undefined, maxTokens |-> 0,
   allowedOrigins |-> <<>>, botKey |-> Undefined, knowledge |-> -1,
   knowledgeUrls |-> <<>>, ragEnabled |-> FALSE, ragMode |-> Undefined,
   ragMaxUrlsPerRequest |-> 0, ragTopKChunks |-> 0, ragChunkChars |-> 0,
   ragCacheTtlSeconds |-> 0, maxTurns |-> 0, maxCharsPerMessage |-> 0,
   rateLimit |-> [limit |-> 0, windowSeconds |-> 0],
   dailyBudget |-> NoBudget, actions |-> NoActions]

\* `existing?.f ?? d` for a numeric field f
OrDef(existing, v, d) == IF existing.isCfg THEN v ELSE d

\* normalizeActionConfig(v): v = [given, actionsEnabled, webhookUrl, hasTypes, types]
\* where types is the set of strings in v.allowedActionTypes.  The order of
\* the allowed types is not modelled.
normalizeActionConfig(v) ==
  IF ~v.given THEN NoActions
  ELSE [set |-> TRUE,
        actionsEnabled |-> v.actionsEnabled,
        webhookUrl |-> IF v.webhookUrl.ok THEN UrlToString(v.webhookUrl) ELSE EmptyStr,
        allowedActionTypes |-> IF v.hasTypes THEN v.types \cap ActionTypes ELSE {}]

\* a stored actions object read back as the argument of normalizeActionConfig
ActionsAsInput(a) ==
  [given |-> a.set, actionsEnabled |-> a.actionsEnabled, webhookUrl |-> a.webhookUrl,
   hasTypes |-> a.allowedActionTypes # {}, types |-> a.allowedActionTypes]

\* normalizeDailyBudget(v, existing): v = [given (truthy), maxRequestsPerDay, maxTokensPerDay]
normalizeDailyBudget(v, existing) ==
  IF ~v.given /\ ~existing.set THEN NoBudget
  ELSE [set |-> TRUE,
        maxRequestsPerDay |->
          clampInt(IF v.given THEN v.maxRequestsPerDay ELSE JUndef,
                   IF existing.set THEN existing.maxRequestsPerDay ELSE 300, 0, 100000),
        maxTokensPerDay |->
          clampInt(IF v.given THEN v.maxTokensPerDay ELSE JUndef,
                   IF existing.set THEN existing.maxTokensPerDay ELSE 0, 0, 50000000)]

\* normalizeConfig(incoming, existing), for an incoming body with a botId
normalizeConfig(incoming, existing) ==
  [isCfg |-> TRUE,
   botId |-> incoming.botId,
   tone |-> IF incoming.tone # Undefined THEN incoming.tone ELSE existing.tone,
   maxTokens |-> clampInt(incoming.maxTokens, OrDef(existing, existing.maxTokens, 512),
                          64, GLOBAL_MAX_TOKENS),
   allowedOrigins |->
     sanitizeOrigins(IF incoming.allowedOrigins.given THEN incoming.allowedOrigins
                     ELSE [arr |-> existing.isCfg, list |-> existing.allowedOrigins]),
   botKey |-> IF incoming.botKey # Undefined THEN incoming.botKey ELSE existing.botKey,
   knowledge |-> IF incoming.knowledge >= 0 THEN incoming.knowledge ELSE existing.knowledge,
   knowledgeUrls |->
     sanitizeUrlList(IF incoming.knowledgeUrls.given THEN incoming.knowledgeUrls
                     ELSE [arr |-> existing.isCfg, list |-> existing.knowledgeUrls]),
   ragEnabled |-> IF incoming.ragEnabled \in {"true", "false"} THEN incoming.ragEnabled = "true"
                  ELSE existing.ragEnabled,
   ragMode |-> IF incoming.ragMode \in {"simple", "embed"} THEN incoming.ragMode
               ELSE existing.ragMode,
   ragMaxUrlsPerRequest |->
     clampInt(incoming.ragMaxUrlsPerRequest, OrDef(existing, existing.ragMaxUrlsPerRequest, 2),
              0, GLOBAL_RAG_MAX_URLS),
   ragTopKChunks |->
     clampInt(incoming.ragTopKChunks, OrDef(existing, existing.ragTopKChunks, 4),
              1, GLOBAL_RAG_MAX_TOPK),
   ragChunkChars |->
     clampInt(incoming.ragChunkChars, OrDef(existing, existing.ragChunkChars, 1200),
              300, GLOBAL_RAG_MAX_CHUNK_CHARS),
   ragCacheTtlSeconds |->
     clampInt(incoming.ragCacheTtlSeconds, OrDef(existing, existing.ragCacheTtlSeconds, 86400),
              60, 7 * 86400),
   maxTurns |-> clampInt(incoming.maxTurns, OrDef(existing, existing.maxTurns, 20),
                         4, GLOBAL_MAX_TURNS),
   maxCharsPerMessage |->
     clampInt(incoming.maxCharsPerMessage, OrDef(existing, existing.maxCharsPerMessage, 4000),
              200, GLOBAL_MAX_CHARS_PER_MESSAGE),
   rateLimit |->
     [limit |-> clampInt(incoming.rateLimit.limit,
                         OrDef(existing, existing.rateLimit.limit, 12), 1, 120),
      windowSeconds |-> clampInt(incoming.rateLimit.windowSeconds,
                                 OrDef(existing, existing.rateLimit.windowSeconds, 60), 10, 3600)],
   dailyBudget |-> normalizeDailyBudget(incoming.dailyBudget, existing.dailyBudget),
   actions |-> normalizeActionConfig(IF incoming.actions.given THEN incoming.actions
                                     ELSE ActionsAsInput(existing.actions))]

(***************************************************************************)
(* Request bodies of /admin/upsert.                                        *)
(***************************************************************************)
NoList == [given |-> FALSE, arr |-> FALSE, list |-> <<>>]
ListOf(l) == [given |-> TRUE, arr |-> TRUE, list |-> l]
NoActionsIn == [given |-> FALSE, actionsEnabled |-> FALSE, webhookUrl |-> EmptyStr,
                hasTypes |-> FALSE, types |-> {}]

\* a body that is a JSON object with only a botId
BaseBody(botId) ==
  [isObject |-> TRUE, botId |-> botId, tone |-> Undefined, maxTokens |-> JUndef,
   allowedOrigins |-> NoList, botKey |-> Undefined, knowledge |-> -1,
   knowledgeUrls |-> NoList, ragEnabled |-> Undefined, ragMode |-> Undefined,
   ragMaxUrlsPerRequest |-> JUndef, ragTopKChunks |-> JUndef, ragChunkChars |-> JUndef,
   ragCacheTtlSeconds |-> JUndef, maxTurns |-> JUndef, maxCharsPerMessage |-> JUndef,
   rateLimit |-> [limit |-> JUndef, windowSeconds |-> JUndef],
   dailyBudget |-> [given |-> FALSE, maxRequestsPerDay |-> JUndef, maxTokensPerDay |-> JUndef],
   actions |-> NoActionsIn]

\* a body that is not a JSON object (req.json() failed or gave a scalar)
NotAnObject == [BaseBody("") EXCEPT !.isObject = FALSE]

(***************************************************************************)
(* The key-value stores.  A store is a function from the keys it holds to  *)
(* their values; BOT_CONFIG values are [kind, cfg, ids]: a configuration   *)
(* record (kind "cfg") or the JSON array of bot ids (kind "ids").          *)
(***************************************************************************)
VARIABLES
  ADMIN_TOKEN,   \* env.ADMIN_TOKEN, "" when the secret is not set
  BOT_CONFIG,    \* env.BOT_CONFIG
  adm,           \* the admin requests in flight: [pc, body, existing, cfg, ids, at, own, ...]
  admResp,       \* the last response of each admin slot
  nUpserts,      \* number of admin requests started
  nWrites,       \* number of puts to BOT_CONFIG so far
  lastUp         \* the last completed upsert: its body, result and the store after it

NoValue == [kind |-> "none", cfg |-> NoExisting, ids |-> <<>>]
CfgValue(c) == [kind |-> "cfg", cfg |-> c, ids |-> <<>>]
IdsValue(l) == [kind |-> "ids", cfg |-> NoExisting, ids |-> l]

KvGet(store, k) == IF k \in DOMAIN store THEN store[k] ELSE NoValue
KvPut(store, k, v) == [x \in DOMAIN store \cup {k} |-> IF x = k THEN v ELSE store[x]]

CfgKey(botId) == "cfg:" \o botId
IndexKey == "cfg:index"
IndexCap == 500

\* safeJsonParse(existingRaw) as BotConfig: an array has none of the fields
ExistingOf(val) == IF val.kind = "cfg" THEN val.cfg ELSE NoExisting
\* Array.isArray(parsed) ? parsed : []
IdsOf(val) == IF val.kind = "ids" THEN val.ids ELSE <<>>
\* ids.slice(-IndexCap)
LastN(s, n) == IF Len(s) <= n THEN s ELSE SubSeq(s, Len(s) - n + 1, Len(s))

\* the locals of an admin request.  route and token are the path and the
\* bearer token it came with; own, reads and fetches count its puts to and
\* gets from the stores and its outbound fetches; urls are the pages
\* /admin/kb/refresh has still to fetch, refreshed those it has fetched
IdleAdm == [pc |-> "idle", body |-> NotAnObject, existing |-> NoExisting,
            cfg |-> NoExisting, ids |-> <<>>, at |-> 0, own |-> 0,
            route |-> "", token |-> "", reads |-> 0, fetches |-> 0,
            urls |-> <<>>, ttl |-> 0, refreshed |-> 0]
\* an admin response: status, error, and the cfg, botIds or refreshed it
\* carries; route, token, reads, writes and fetches record the request it
\* answers; botId and chats record, for a completed refresh, its bot and the
\* number of chat requests started before it ended
NoAdmResp == [status |-> 0, error |-> "", cfg |-> NoExisting, ids |-> <<>>, refreshed |-> 0,
              route |-> "", token |-> "", reads |-> 0, writes |-> 0, fetches |-> 0,
              botId |-> "", chats |-> 0]
AdmResp(status, error, cfg) ==
  [NoAdmResp EXCEPT !.status = status, !.error = error, !.cfg = cfg]
\* response x to a request that ends before it has read or written anything
Rejected(route, token, x) == [x EXCEPT !.route = route, !.token = token]
\* response x to the request of slot a, which ends with dr more reads and dw
\* more writes
Answered(a, x, dr, dw) ==
  [x EXCEPT !.route = adm[a].route, !.token = adm[a].token,
            !.reads = adm[a].reads + dr, !.writes = adm[a].own + dw,
            !.fetches = adm[a].fetches]
NoLastUp == [valid |-> FALSE, body |-> NotAnObject, cfg |-> NoExisting,
             stored |-> NoValue, index |-> NoValue, at |-> 0]

\* requireAdmin comparing the tokens without the tests for empty ones
requireAdminCompareOnly(token) ==
  IF token # ADMIN_TOKEN THEN "UNAUTHORIZED" ELSE ""

\* requireAdmin: the error it throws, "" when the token is accepted
requireAdmin(token) ==
  IF ADMIN_TOKEN = "" THEN "ADMIN_TOKEN is not set in worker secrets."
  ELSE IF token = "" \/ token # ADMIN_TOKEN THEN "UNAUTHORIZED"
  ELSE ""

\* the router's catch: UNAUTHORIZED is 401, any other throw is 500
RouterCatch(msg) ==
  IF msg = "UNAUTHORIZED" THEN AdmResp(401, "UNAUTHORIZED", NoExisting)
  ELSE AdmResp(500, "SERVER_ERROR", NoExisting)

\* handleAdminUpsert up to and including `await env.BOT_CONFIG.get`
AdminUpsertBegin(a, token, body) ==
  /\ adm[a].pc = "idle"
  /\ nUpserts' = nUpserts + 1
  /\ IF requireAdmin(token) # ""
     THEN /\ admResp' = [admResp EXCEPT ![a] =
                            Rejected("upsert", token, RouterCatch(requireAdmin(token)))]
          /\ UNCHANGED adm
     ELSE IF ~body.isObject \/ body.botId = ""
     THEN /\ admResp' = [admResp EXCEPT ![a] =
                            Rejected("upsert", token, AdmResp(400, "BAD_REQUEST", NoExisting))]
          /\ UNCHANGED adm
     ELSE /\ adm' = [adm EXCEPT ![a] =
                       [IdleAdm EXCEPT !.pc = "put", !.body = body,
                          !.existing = ExistingOf(KvGet(BOT_CONFIG, CfgKey(body.botId))),
                          !.at = nWrites,
                          !.route = "upsert", !.token = token, !.reads = 1]]
          /\ admResp' = [admResp EXCEPT ![a] = NoAdmResp]
  /\ UNCHANGED <<ADMIN_TOKEN, BOT_CONFIG, nWrites, lastUp>>

\* cfg = normalizeConfig(body, existing); await env.BOT_CONFIG.put(`cfg:${botId}`, ...)
AdminUpsertPut(a) ==
  /\ adm[a].pc = "put"
  /\ LET cfg == normalizeConfig(adm[a].body, adm[a].existing)
     IN /\ BOT_CONFIG' = KvPut(BOT_CONFIG, CfgKey(adm[a].body.botId), CfgValue(cfg))
        /\ adm' = [adm EXCEPT ![a].pc = "idxget", ![a].cfg = cfg, ![a].own = @ + 1]
  /\ nWrites' = nWrites + 1
  /\ UNCHANGED <<ADMIN_TOKEN, admResp, nUpserts, lastUp>>

\* the upsert of slot a ends with 200 and the store as it is in the next state
UpsertDone(a, store) ==
  /\ admResp' = [admResp EXCEPT ![a] =
                    Answered(a, AdmResp(200, "", adm[a].cfg),
                             IF adm[a].pc = "idxget" THEN 1 ELSE 0,
                             IF adm[a].pc = "idxput" THEN 1 ELSE 0)]
  /\ lastUp' = [valid |-> TRUE, body |-> adm[a].body, cfg |-> adm[a].cfg,
                stored |-> KvGet(store, CfgKey(adm[a].body.botId)),
                index |-> KvGet(store, IndexKey), at |-> nWrites']

\* recordBotId without the includes test
AdminIndexGetAlways(a) ==
  /\ adm[a].pc = "idxget"
  /\ adm' = [adm EXCEPT ![a].pc = "idxput",
                        ![a].ids = Append(IdsOf(KvGet(BOT_CONFIG, IndexKey)), adm[a].body.botId)]
  /\ UNCHANGED <<ADMIN_TOKEN, BOT_CONFIG, nUpserts, admResp, lastUp, nWrites>>

\* recordBotId: `await env.BOT_CONFIG.get("cfg:index")` and the includes test
AdminIndexGet(a) ==
  /\ adm[a].pc = "idxget"
  /\ LET ids == IdsOf(KvGet(BOT_CONFIG, IndexKey))
     IN IF \E i \in 1..Len(ids) : ids[i] = adm[a].body.botId
        THEN /\ adm' = [adm EXCEPT ![a] = IdleAdm]
             /\ nWrites' = nWrites
             /\ UpsertDone(a, BOT_CONFIG)
        ELSE /\ adm' = [adm EXCEPT ![a].pc = "idxput", ![a].ids = Append(ids, adm[a].body.botId),
                                   ![a].reads = @ + 1]
             /\ UNCHANGED <<admResp, lastUp, nWrites>>
  /\ UNCHANGED <<ADMIN_TOKEN, BOT_CONFIG, nUpserts>>

\* recordBotId: `await env.BOT_CONFIG.put("cfg:index", JSON.stringify(ids.slice(-500)))`
AdminIndexPut(a) ==
  /\ adm[a].pc = "idxput"
  /\ BOT_CONFIG' = KvPut(BOT_CONFIG, IndexKey, IdsValue(LastN(adm[a].ids, IndexCap)))
  /\ nWrites' = nWrites + 1
  /\ adm' = [adm EXCEPT ![a] = IdleAdm]
  /\ UpsertDone(a, BOT_CONFIG')
  /\ UNCHANGED <<ADMIN_TOKEN, nUpserts>>

(***************************************************************************)
(* The chat path: clock, cache store, requests in flight.                  *)
(***************************************************************************)
VARIABLES
  tick,       \* position of the wall clock in Clock
  KB_CACHE,   \* env.KB_CACHE: key -> [kind, n, tokens, exp]
  chat,       \* the chat requests in flight, one record of locals per slot
  resp,       \* the response of the request last handled in each slot
  hist,       \* the steps the current request of each slot has run, in order
  calls,      \* outbound calls of the current request of each slot: [fetch, embed, ai, webhook]
  nChats,     \* number of chat requests started
  rlLog,      \* <<botId, ip, bucket>> -> [reached, passed] at the rate-limit step
  budLog,     \* <<botId, day>> -> [admitted, refused, succeeded, counted]
  probe       \* the inputs under test of the specifications that fix them at the start

\* the instants (seconds) at which the clock is observed
Clock == <<86395, 86399, 86401, 86411, 172800, 172804>>
Now == Clock[tick]

KbNone == [kind |-> "none", n |-> 0, tokens |-> 0, exp |-> 0]
KbCount(n, exp) == [kind |-> "count", n |-> n, tokens |-> 0, exp |-> exp]
KbBudget(requests, tokens, exp) == [kind |-> "budget", n |-> requests, tokens |-> tokens, exp |-> exp]
KbText(len, exp) == [kind |-> "text", n |-> len, tokens |-> 0, exp |-> exp]
KbVector(exp) == [kind |-> "vector", n |-> 1, tokens |-> 0, exp |-> exp]

\* env.KB_CACHE.get(key): an entry past its expirationTtl is gone
KbGet(k) ==
  IF k \in DOMAIN KB_CACHE /\ Now < KB_CACHE[k].exp THEN KB_CACHE[k] ELSE KbNone
\* env.KB_CACHE.put(key, value, { expirationTtl })
KbPut(k, v) == [x \in DOMAIN KB_CACHE \cup {k} |-> IF x = k THEN v ELSE KB_CACHE[x]]

\* a stored record as the chat path reads it: the index array has no fields
NumOf(cfg, v) == IF cfg.isCfg THEN J("num", v * 10) ELSE JUndef

\* getHeader(req, "cf-connecting-ip") || getHeader(req, "x-forwarded-for"),
\* first list element, "unknown" when empty
ipFromReq(cf, xff) == IF cf # "" THEN cf ELSE IF xff # "" THEN xff ELSE "unknown"

\* rl?.limit ?? 12 and rl?.windowSeconds ?? 60
RlLimit(cfg) == IF cfg.isCfg THEN cfg.rateLimit.limit ELSE 12
RlWindow(cfg) == IF cfg.isCfg THEN cfg.rateLimit.windowSeconds ELSE 60

Bucket(ts, windowSeconds) == ts \div windowSeconds
RateKey(botId, ip, bucket) == "rl:" \o botId \o ":" \o ip \o ":" \o ToString(bucket)

\* Number((await env.KB_CACHE.get(key)) || "0") || 0
RlCurrent(val) == IF val.kind = "count" THEN val.n ELSE 0

\* utcDayKey(ts): the label of the UTC calendar day of ts
DayOf(ts) == ts \div DaySeconds
utcDayKey(ts) == "d" \o ToString(DayOf(ts))
BudgetKey(dayKey, botId) == "bud:v1:" \o dayKey \o ":" \o botId

\* getBudgetState: { requests, tokens } of the stored JSON, 0 for what is missing
BudgetStateOf(val) ==
  IF val.kind = "budget" THEN [requests |-> val.n, tokens |-> val.tokens]
  ELSE [requests |-> 0, tokens |-> 0]

\* getRequestOrigin(req): the Origin header, else proto://host from the
\* forwarding headers, else ""
getRequestOrigin(h) ==
  IF h.origin # EmptyStr THEN h.origin
  ELSE LET proto == IF h.xfProto # "" THEN h.xfProto ELSE "https"
           host == IF h.xfHost # "" THEN h.xfHost ELSE h.host
       IN IF host # "" THEN Str(TRUE, proto, host, 0, "") ELSE EmptyStr

\* getBotKeyFromReq: headerKey || bodyKey
getBotKeyFromReq(headerKey, bodyKey) == IF headerKey # "" THEN headerKey ELSE bodyKey

NoBud == [tracked |-> FALSE, dayKey |-> "", day |-> 0, requests |-> 0, tokens |-> 0]
\* A model output text: raw is the text, json tells whether its trimmed form
\* is brace-delimited and parses ("no", "bad", "obj"); for a parsed object,
\* msg is its message when that is a string (else ""), hasAction whether its
\* action is an object and atype that object's type; len is the text length.
Out(raw, json, msg, hasAction, atype, len) ==
  [raw |-> raw, json |-> json, msg |-> msg, hasAction |-> hasAction, atype |-> atype, len |-> len]
NoOut == Out("", "no", "", FALSE, "", 0)
\* aiResult: shape is where the text sits ("response", "result.response",
\* "output_text", or another shape); usage is usage.total_tokens, -1 when the
\* result reports none
NoAi == [shape |-> "", text |-> NoOut, usage |-> -1]
NoReply == [message |-> "", action |-> ""]
\* what buildRagBlock did for a request: the kind of block it returned ("" when
\* it has not run; "none", "simple", "fallback" or "ranked"), the URLs chosen,
\* the page texts obtained, the URLs served from the cache, fetched and failed,
\* whether a question vector was obtained, the texts an embedding was asked
\* for, the chunks cut (the longest of `size` characters), the chunk vectors
\* obtained and the chunks placed in the block
NoRag == [kind |-> "", chosen |-> <<>>, texts |-> <<>>, hits |-> {}, fetched |-> {},
          failed |-> {}, qVec |-> FALSE, asked |-> 0, chunks |-> 0, perPage |-> 0,
          size |-> 0, got |-> 0, picked |-> 0]
IdleChat ==
  [pc |-> "idle", botId |-> "", hasOrigin |-> FALSE, keys |-> <<"", "">>,
   cfg |-> NoExisting, origin |-> EmptyStr,
   ip |-> "", rlKey |-> "", current |-> 0, bud |-> NoBud, waits |-> "",
   trimmed |-> <<>>, ragLen |-> 0, rag |-> NoRag, input |-> <<>>, ai |-> NoAi,
   reply |-> NoReply]

NoAction == [type |-> "", contactUrl |-> FALSE]
\* a response: status, error code, the Access-Control-Allow-Origin and
\* Retry-After headers (EmptyStr and 0 when absent), message and action.
\* botId, hasOrigin, keys, reqOrigin and ai record the request it answers:
\* its bot, whether it carried an Origin header, the keys in its x-bot-key
\* header and its body, the origin the origin step saw, and the result of
\* its inference call.
NoResp == [status |-> 0, error |-> "", acao |-> EmptyStr, retryAfter |-> 0,
           message |-> "", action |-> NoAction,
           botId |-> "", hasOrigin |-> FALSE, keys |-> <<"", "">>,
           reqOrigin |-> EmptyStr, ai |-> NoAi]
ErrResp(status, error, acao, retryAfter) ==
  [NoResp EXCEPT !.status = status, !.error = error, !.acao = acao, !.retryAfter = retryAfter]

\* the request of slot r ends with response x
Finish(r, x) ==
  /\ chat' = [chat EXCEPT ![r] = IdleChat]
  /\ resp' = [resp EXCEPT ![r] = [x EXCEPT !.botId = chat[r].botId,
                                            !.hasOrigin = chat[r].hasOrigin,
                                            !.ai = chat[r].ai,
                                            !.keys = IF x.status = 401 THEN x.keys
                                                     ELSE chat[r].keys,
                                            !.reqOrigin = IF x.status = 403 THEN x.reqOrigin
                                                          ELSE chat[r].origin]]

\* the request of slot r runs step s and goes on with locals c
Goto(r, c) ==
  /\ chat' = [chat EXCEPT ![r] = c]
  /\ UNCHANGED resp

Ran(r, s) == hist' = [hist EXCEPT ![r] = Append(@, s)]

LogGet(log, k, none) == IF k \in DOMAIN log THEN log[k] ELSE none
LogPut(log, k, v) == [x \in DOMAIN log \cup {k} |-> IF x = k THEN v ELSE log[x]]
\* per (bot, address, window): rate-limit steps run and passed, and those
\* run while another request had read the same counter and not yet written
\* it back (overlap)
NoRl == [reached |-> 0, passed |-> 0, overlap |-> 0]
\* the outbound calls of a request, and its puts of a rate-limit counter
\* (rlPut) and of a budget record (budPut)
NoCalls == [fetch |-> 0, embed |-> 0, ai |-> 0, webhook |-> 0, rlPut |-> 0, budPut |-> 0]
\* per bot and UTC day: budget steps that admitted and refused on that day,
\* inference calls that returned successfully on that day (succeeded), and
\* successful calls of requests admitted on that day (counted); overlap
\* counts the budget steps run while another request of the bot had read the
\* day's record and not yet written it back
NoBudLog == [admitted |-> 0, refused |-> 0, succeeded |-> 0, counted |-> 0, overlap |-> 0]

\* another request holds a value of the counter under key k that it has read
\* and not yet written back
RateReadPending(r, k) ==
  \E o \in DOMAIN chat \ {r} : chat[o].pc = "rateput" /\ chat[o].rlKey = k
BudgetReadPending(r, botId, dayKey) ==
  \E o \in DOMAIN chat \ {r} :
    /\ chat[o].pc \in {"sanitize", "rag", "assemble", "ai", "charge"}
    /\ chat[o].bud.tracked /\ chat[o].bud.dayKey = dayKey /\ chat[o].botId = botId

\* handleChat, body parsing: 400 unless the body is an object with a botId
\* and a non-empty messages array; then `env.BOT_CONFIG.get` is issued
ChatBegin(r, body) ==
  /\ chat[r].pc = "idle"
  /\ nChats' = nChats + 1
  /\ hist' = [hist EXCEPT ![r] = <<>>]
  /\ calls' = [calls EXCEPT ![r] = NoCalls]
  /\ IF ~body.isObject \/ body.botId = "" \/ ~body.hasMessages
     THEN /\ chat' = [chat EXCEPT ![r] = IdleChat]
          /\ resp' = [resp EXCEPT ![r] = [ErrResp(400, "BAD_REQUEST", EmptyStr, 0)
                                            EXCEPT !.hasOrigin = body.hasOrigin]]
     ELSE /\ chat' = [chat EXCEPT ![r] = [IdleChat EXCEPT !.pc = "lookup", !.botId = body.botId,
                                                          !.hasOrigin = body.hasOrigin]]
          /\ resp' = [resp EXCEPT ![r] = NoResp]
  /\ UNCHANGED <<tick, KB_CACHE, rlLog, budLog>>

\* rawCfg = await env.BOT_CONFIG.get(`cfg:${botId}`): 404 when there is none
ChatLookup(r) ==
  /\ chat[r].pc = "lookup"
  /\ Ran(r, "lookup")
  /\ LET val == KvGet(BOT_CONFIG, CfgKey(chat[r].botId))
     IN IF val.kind = "none"
        THEN Finish(r, ErrResp(404, "NOT_FOUND", EmptyStr, 0))
        ELSE Goto(r, [chat[r] EXCEPT !.pc = "key", !.cfg = ExistingOf(val)])
  /\ UNCHANGED <<tick, KB_CACHE, calls, nChats, rlLog, budLog>>

\* the bot key gate: 401 when a key is configured and not supplied
ChatKey(r, headerKey, bodyKey) ==
  /\ chat[r].pc = "key"
  /\ Ran(r, "key")
  /\ LET cfg == chat[r].cfg
         provided == getBotKeyFromReq(headerKey, bodyKey)
     IN IF cfg.botKey \notin {Undefined, ""} /\ (provided = "" \/ provided # cfg.botKey)
        THEN Finish(r, [ErrResp(401, "UNAUTHORIZED", EmptyStr, 0)
                          EXCEPT !.keys = <<headerKey, bodyKey>>])
        ELSE Goto(r, [chat[r] EXCEPT !.pc = "origin", !.keys = <<headerKey, bodyKey>>])
  /\ UNCHANGED <<tick, KB_CACHE, calls, nChats, rlLog, budLog>>

\* the origin check: 403 with Access-Control-Allow-Origin "null"
ChatOrigin(r, headers) ==
  /\ chat[r].pc = "origin"
  /\ (headers.origin # EmptyStr) = chat[r].hasOrigin
  /\ Ran(r, "origin")
  /\ LET origin == getRequestOrigin(headers)
     IN IF origin # EmptyStr /\ ~isOriginAllowed(origin, chat[r].cfg.allowedOrigins)
        THEN Finish(r, [ErrResp(403, "FORBIDDEN_ORIGIN", NullStr, 0) EXCEPT !.reqOrigin = origin])
        ELSE Goto(r, [chat[r] EXCEPT !.pc = "rate", !.origin = origin])
  /\ UNCHANGED <<tick, KB_CACHE, calls, nChats, rlLog, budLog>>

\* checkRateLimit letting one more request through
checkRateLimitOffByOne(current, limit) == current <= limit

\* checkRateLimit: does a request that reads `current` pass?
checkRateLimit(current, limit) == current < limit

\* checkRateLimit up to its return or its put: the key of the current window,
\* `await env.KB_CACHE.get(key)`, compare; 429 with Retry-After = windowSeconds
ChatRateGet(r, cf, xff) ==
  /\ chat[r].pc = "rate"
  /\ Ran(r, "rate")
  /\ LET cfg == chat[r].cfg
         ip == ipFromReq(cf, xff)
         bucket == Bucket(Now, RlWindow(cfg))
         key == RateKey(chat[r].botId, ip, bucket)
         current == RlCurrent(KbGet(key))
         lk == <<chat[r].botId, ip, bucket>>
         old == LogGet(rlLog, lk, NoRl)
         pass == checkRateLimit(current, RlLimit(cfg))
     IN /\ rlLog' = LogPut(rlLog, lk, [reached |-> old.reached + 1,
                                       passed |-> old.passed + (IF pass THEN 1 ELSE 0),
                                       overlap |-> old.overlap
                                                   + (IF RateReadPending(r, key) THEN 1 ELSE 0)])
        /\ IF ~pass
           THEN Finish(r, ErrResp(429, "RATE_LIMITED", chat[r].origin, RlWindow(cfg)))
           ELSE Goto(r, [chat[r] EXCEPT !.pc = "rateput", !.ip = ip, !.rlKey = key,
                                        !.current = current])
  /\ UNCHANGED <<tick, KB_CACHE, calls, nChats, budLog>>

\* the put of checkRateLimit writing back the count it read
ChatRatePutSame(r) ==
  /\ chat[r].pc = "rateput"
  /\ KB_CACHE' = KbPut(chat[r].rlKey,
                       KbCount(chat[r].current, Now + RlWindow(chat[r].cfg) + 10))
  /\ calls' = [calls EXCEPT ![r].rlPut = @ + 1]
  /\ Goto(r, [chat[r] EXCEPT !.pc = "budget"])
  /\ UNCHANGED <<tick, hist, nChats, rlLog, budLog>>

\* checkRateLimit: await env.KB_CACHE.put(key, String(current + 1),
\* { expirationTtl: windowSeconds + 10 })
ChatRatePut(r) ==
  /\ chat[r].pc = "rateput"
  /\ KB_CACHE' = KbPut(chat[r].rlKey,
                       KbCount(chat[r].current + 1, Now + RlWindow(chat[r].cfg) + 10))
  /\ calls' = [calls EXCEPT ![r].rlPut = @ + 1]
  /\ Goto(r, [chat[r] EXCEPT !.pc = "budget"])
  /\ UNCHANGED <<tick, hist, nChats, rlLog, budLog>>

\* the ceilings checkDailyBudget works with: clampInt(b.max..., 0, 0, 100000000)
MaxReqOf(cfg) == IF cfg.dailyBudget.set
                 THEN clampInt(J("num", cfg.dailyBudget.maxRequestsPerDay * 10), 0, 0, 100000000)
                 ELSE 0
MaxTokOf(cfg) == IF cfg.dailyBudget.set
                 THEN clampInt(J("num", cfg.dailyBudget.maxTokensPerDay * 10), 0, 0, 100000000)
                 ELSE 0

\* checkDailyBudget with a strict comparison on requests only
budgetExceededReqOnly(state, maxReq, maxTok) == maxReq > 0 /\ state.requests > maxReq

\* checkDailyBudget: is the stored state at or over a ceiling that is set?
budgetExceeded(state, maxReq, maxTok) ==
  \/ maxReq > 0 /\ state.requests >= maxReq
  \/ maxTok > 0 /\ state.tokens >= maxTok

\* checkDailyBudget counting the request in the stored record as soon as it
\* is admitted
ChatBudgetCounting(r) ==
  /\ chat[r].pc = "budget"
  /\ Ran(r, "budget")
  /\ LET cfg == chat[r].cfg
         maxReq == MaxReqOf(cfg)
         maxTok == MaxTokOf(cfg)
         dayKey == utcDayKey(Now)
         state == BudgetStateOf(KbGet(BudgetKey(dayKey, cfg.botId)))
         lk == <<chat[r].botId, DayOf(Now)>>
         was == LogGet(budLog, lk, NoBudLog)
         old == [was EXCEPT !.overlap = @ + (IF BudgetReadPending(r, chat[r].botId, dayKey)
                                             THEN 1 ELSE 0)]
     IN IF ~cfg.dailyBudget.set \/ (maxReq <= 0 /\ maxTok <= 0)
        THEN /\ Goto(r, [chat[r] EXCEPT !.pc = "sanitize", !.bud = [NoBud EXCEPT !.day = DayOf(Now)]])
             /\ budLog' = LogPut(budLog, lk, [old EXCEPT !.admitted = @ + 1])
             /\ UNCHANGED <<KB_CACHE, calls>>
        ELSE IF budgetExceeded(state, maxReq, maxTok)
        THEN /\ Finish(r, ErrResp(429, "BUDGET_EXCEEDED", chat[r].origin, 3600))
             /\ budLog' = LogPut(budLog, lk, [old EXCEPT !.refused = @ + 1])
             /\ UNCHANGED <<KB_CACHE, calls>>
        ELSE /\ Goto(r, [chat[r] EXCEPT !.pc = "sanitize",
                           !.bud = [tracked |-> TRUE, dayKey |-> dayKey, day |-> DayOf(Now),
                                    requests |-> state.requests + 1, tokens |-> state.tokens]])
             /\ budLog' = LogPut(budLog, lk, [old EXCEPT !.admitted = @ + 1])
             /\ KB_CACHE' = KbPut(BudgetKey(dayKey, cfg.botId),
                                  KbBudget(state.requests + 1, state.tokens, Now + 3 * 86400))
             /\ calls' = [calls EXCEPT ![r].budPut = @ + 1]
  /\ UNCHANGED <<tick, nChats, rlLog>>

\* checkDailyBudget: nothing is read when no ceiling is set; otherwise the
\* state of the current UTC day is read and compared; 429 BUDGET_EXCEEDED
\* with Retry-After 3600
ChatBudget(r) ==
  /\ chat[r].pc = "budget"
  /\ Ran(r, "budget")
  /\ LET cfg == chat[r].cfg
         maxReq == MaxReqOf(cfg)
         maxTok == MaxTokOf(cfg)
         dayKey == utcDayKey(Now)
         state == BudgetStateOf(KbGet(BudgetKey(dayKey, cfg.botId)))
         lk == <<chat[r].botId, DayOf(Now)>>
         was == LogGet(budLog, lk, NoBudLog)
         old == [was EXCEPT !.overlap = @ + (IF BudgetReadPending(r, chat[r].botId, dayKey)
                                             THEN 1 ELSE 0)]
     IN IF ~cfg.dailyBudget.set \/ (maxReq <= 0 /\ maxTok <= 0)
        THEN /\ Goto(r, [chat[r] EXCEPT !.pc = "sanitize", !.bud = [NoBud EXCEPT !.day = DayOf(Now)]])
             /\ budLog' = LogPut(budLog, lk, [old EXCEPT !.admitted = @ + 1])
        ELSE IF budgetExceeded(state, maxReq, maxTok)
        THEN /\ Finish(r, ErrResp(429, "BUDGET_EXCEEDED", chat[r].origin, 3600))
             /\ budLog' = LogPut(budLog, lk, [old EXCEPT !.refused = @ + 1])
        ELSE /\ Goto(r, [chat[r] EXCEPT !.pc = "sanitize",
                           !.bud = [tracked |-> TRUE, dayKey |-> dayKey, day |-> DayOf(Now),
                                    requests |-> state.requests, tokens |-> state.tokens]])
             /\ budLog' = LogPut(budLog, lk, [old EXCEPT !.admitted = @ + 1])
  /\ UNCHANGED <<tick, KB_CACHE, calls, nChats, rlLog>>

(***************************************************************************)
(* Conversation turns.  A caller-supplied message is [role, len, id, q]:   *)
(* len is the length of String(content), id tells the messages of one      *)
(* history apart, q is the set of words of the content.                    *)
(***************************************************************************)
Msg(role, len, id, q) == [role |-> role, len |-> len, id |-> id, q |-> q]

RECURSIVE SanitizeLoop(_, _)
SanitizeLoop(ms, maxChars) ==
  IF ms = <<>> THEN <<>>
  ELSE LET m == ms[1]
           content == Min2(m.len, maxChars)
           rest == SanitizeLoop(Tail(ms), maxChars)
       IN IF m.role \notin {"user", "assistant"} \/ content = 0 THEN rest
          ELSE <<[m EXCEPT !.len = content]>> \o rest

\* the loop over messages.slice(-maxTurns) that builds `trimmed`
Sanitize(cfg, messages) ==
  LET maxTurns == clampInt(NumOf(cfg, cfg.maxTurns), 20, 4, GLOBAL_MAX_TURNS)
      maxChars == clampInt(NumOf(cfg, cfg.maxCharsPerMessage), 4000, 200,
                           GLOBAL_MAX_CHARS_PER_MESSAGE)
  IN SanitizeLoop(LastN(messages, maxTurns), maxChars)

RECURSIVE LastUser(_)
\* [...trimmed].reverse().find((m) => m.role === "user")?.content || ""
LastUser(trimmed) ==
  IF trimmed = <<>> THEN {}
  ELSE IF trimmed[Len(trimmed)].role = "user" THEN trimmed[Len(trimmed)].q
  ELSE LastUser(SubSeq(trimmed, 1, Len(trimmed) - 1))

\* `trimmed` is built; 400 when it is empty
ChatSanitize(r, messages) ==
  /\ chat[r].pc = "sanitize"
  /\ Ran(r, "sanitize")
  /\ LET trimmed == Sanitize(chat[r].cfg, messages)
     IN IF trimmed = <<>>
        THEN Finish(r, ErrResp(400, "BAD_REQUEST", EmptyStr, 0))
        ELSE Goto(r, [chat[r] EXCEPT !.pc = "rag", !.trimmed = trimmed])
  /\ UNCHANGED <<tick, KB_CACHE, calls, nChats, rlLog, budLog>>

(***************************************************************************)
(* Knowledge retrieval.                                                    *)
(***************************************************************************)
\* the pairs <<w, s>> of modelled words with s a proper substring of w
Substrings ==
  {<<"prices", "price">>, <<"/pricing", "pricing">>, <<"/contact", "contact">>,
   <<"/about", "about">>, <<"site.example", "example">>, <<"docs.example", "example">>,
   <<"docs.example", "docs">>, <<"/docs", "docs">>, <<"contacts", "contact">>,
   <<"pricing.example", "pricing">>, <<"pricing.example", "example">>}
Has(w, s) == w = s \/ <<w, s>> \in Substrings
\* words of fewer than 3 characters
ShortWords == {"is", "of", "a"}

\* q.includes(s) and p.includes(s), for a question (a set of words) and a URL
QIncludes(q, s) == \E w \in q : Has(w, s)
PIncludes(u, s) == Has(u.scheme, s) \/ Has(u.host, s) \/ Has(u.path, s)

\* the score without the boost for pricing pages
UrlScoreNoPricing(q, u) ==
  2 * Cardinality({t \in q : t \notin ShortWords /\ PIncludes(u, t)})
  + (IF (QIncludes(q, "contact") \/ QIncludes(q, "quote")) /\ PIncludes(u, "contact")
     THEN 5 ELSE 0)
  + (IF QIncludes(q, "privacy") /\ PIncludes(u, "privacy") THEN 5 ELSE 0)
  + (IF QIncludes(q, "terms") /\ PIncludes(u, "terms") THEN 5 ELSE 0)

\* the score selectRelevantUrls gives URL u for question q
UrlScore(q, u) ==
  2 * Cardinality({t \in q : t \notin ShortWords /\ PIncludes(u, t)})
  + (IF (QIncludes(q, "price") \/ QIncludes(q, "pricing") \/ QIncludes(q, "cost"))
        /\ PIncludes(u, "pricing") THEN 5 ELSE 0)
  + (IF (QIncludes(q, "contact") \/ QIncludes(q, "quote")) /\ PIncludes(u, "contact")
     THEN 5 ELSE 0)
  + (IF QIncludes(q, "privacy") /\ PIncludes(u, "privacy") THEN 5 ELSE 0)
  + (IF QIncludes(q, "terms") /\ PIncludes(u, "terms") THEN 5 ELSE 0)

RECURSIVE InsertByScore(_, _, _)
\* u goes after every entry whose score is at least its own (stable order)
InsertByScore(sorted, u, q) ==
  IF sorted = <<>> THEN <<u>>
  ELSE IF UrlScore(q, sorted[1]) >= UrlScore(q, u)
       THEN <<sorted[1]>> \o InsertByScore(Tail(sorted), u, q)
       ELSE <<u>> \o sorted

RECURSIVE SortByScore(_, _)
SortByScore(urls, q) ==
  IF urls = <<>> THEN <<>>
  ELSE InsertByScore(SortByScore(SubSeq(urls, 1, Len(urls) - 1), q), urls[Len(urls)], q)

\* selectRelevantUrls(question, urls, max)
selectRelevantUrls(q, urls, max) ==
  IF urls = <<>> \/ max <= 0 THEN <<>>
  ELSE LET sorted == SortByScore(urls, q) IN SubSeq(sorted, 1, Min2(max, Len(sorted)))

UrlText(u) == u.scheme \o "://" \o u.host \o u.path
KbKey(u) == "kb:" \o UrlText(u)
EmbKey(text) == "emb:" \o text

\* chunkText going on to the end of the text whatever maxChunks is
chunkCountUncapped(len, chunkChars, maxChunks) ==
  LET size == Max2(300, Min2(GLOBAL_RAG_MAX_CHUNK_CHARS, IF chunkChars = 0 THEN 1200 ELSE chunkChars))
  IN (len \div size) + (IF len % size >= 80 THEN 1 ELSE 0)

\* chunkText(text, chunkChars, maxChunks): the number of chunks of a text of
\* length len; a last part shorter than 80 characters is dropped
chunkCount(len, chunkChars, maxChunks) ==
  LET size == Max2(300, Min2(GLOBAL_RAG_MAX_CHUNK_CHARS, IF chunkChars = 0 THEN 1200 ELSE chunkChars))
      n == (len \div size) + (IF len % size >= 80 THEN 1 ELSE 0)
  IN Min2(n, maxChunks)

CacheGet(cache, k) == IF k \in DOMAIN cache /\ Now < cache[k].exp THEN cache[k] ELSE KbNone
CachePut(cache, k, v) == [x \in DOMAIN cache \cup {k} |-> IF x = k THEN v ELSE cache[x]]

RECURSIVE FetchAll(_, _, _, _)
\* the loop over `chosen` in buildRagBlock with getCachedUrlText inlined:
\* pages[i] is what fetching chosen[i] yields, -1 for a failed fetch, else the
\* length of the extracted text.  acc = [cache, texts, fetch, hits, fetched,
\* failed]
FetchAll(chosen, pages, ttl, acc) ==
  IF chosen = <<>> THEN acc
  ELSE LET u == chosen[1]
           cached == CacheGet(acc.cache, KbKey(u))
           hit == cached.kind = "text" /\ cached.n > 0
           len == IF hit THEN cached.n ELSE Min2(pages[1], 60000)
           next ==
             IF hit THEN [acc EXCEPT !.texts = Append(@, [url |-> u, len |-> len]),
                                     !.hits = @ \cup {u}]
             ELSE IF pages[1] < 0 THEN [acc EXCEPT !.fetch = @ + 1, !.failed = @ \cup {u}]
             ELSE [acc EXCEPT !.cache = CachePut(acc.cache, KbKey(u), KbText(len, Now + ttl)),
                              !.texts = IF len > 0 THEN Append(@, [url |-> u, len |-> len])
                                        ELSE @,
                              !.fetch = @ + 1,
                              !.fetched = @ \cup {u}]
       IN FetchAll(Tail(chosen), Tail(pages), ttl, next)

\* getCachedEmbedding over the texts named in `names`, one after the other:
\* works says whether the embedding service answers.  A text whose vector is
\* cached is not asked for; a vector obtained is cached, so that a text is
\* asked for once when the service answers.  acc = [cache, got, embed]
EmbedAll(names, works, ttl, acc) ==
  LET miss == {i \in 1..Len(names) : CacheGet(acc.cache, EmbKey(names[i])).kind # "vector"}
      keys == {EmbKey(names[i]) : i \in miss}
  IN IF works
     THEN [cache |-> [x \in DOMAIN acc.cache \cup keys |->
                        IF x \in keys THEN KbVector(Now + ttl) ELSE acc.cache[x]],
           got |-> acc.got + Len(names),
           embed |-> acc.embed + Cardinality(keys)]
     ELSE [cache |-> acc.cache,
           got |-> acc.got + (Len(names) - Cardinality(miss)),
           embed |-> acc.embed + Cardinality(miss)]

RECURSIVE ChunkNames(_, _)
\* the chunks of the fetched pages, named by page and position
ChunkNames(texts, chunkChars) ==
  IF texts = <<>> THEN <<>>
  ELSE [i \in 1..chunkCount(texts[1].len, chunkChars, GLOBAL_RAG_EMBED_MAX_CHUNKS_PER_PAGE)
          |-> UrlText(texts[1].url) \o "#" \o ToString(texts[1].len) \o "#" \o ToString(i)]
       \o ChunkNames(Tail(texts), chunkChars)

RECURSIVE SumExcerpts(_)
\* the characters of `SOURCE: url\n` + text.slice(0, 2800) over the pages
\* (a URL is counted as 30 characters)
SumExcerpts(texts) ==
  IF texts = <<>> THEN 0
  ELSE 39 + Min2(texts[1].len, 2800) + SumExcerpts(Tail(texts))

RECURSIVE MaxChunks(_, _)
\* the largest number of chunks chunkText cuts from one of the pages
MaxChunks(texts, chunkChars) ==
  IF texts = <<>> THEN 0
  ELSE Max2(chunkCount(texts[1].len, chunkChars, GLOBAL_RAG_EMBED_MAX_CHUNKS_PER_PAGE),
            MaxChunks(Tail(texts), chunkChars))

\* the length of the longest chunk chunkText cuts from a text of length len
chunkSize(len, chunkChars) ==
  Min2(len, Max2(300, Min2(GLOBAL_RAG_MAX_CHUNK_CHARS,
                           IF chunkChars = 0 THEN 1200 ELSE chunkChars)))

\* buildRagBlock returning "" before any page is fetched
ragNone ==
  [cache |-> KB_CACHE, len |-> 0, fetch |-> 0, embed |-> 0,
   rag |-> [NoRag EXCEPT !.kind = "none"]]

\* buildRagBlock, embed mode, after the chunks were embedded (ec): the topK
\* best chunks make the block, "" when no chunk has a vector
buildRagBlockPicked(f, fetched, names, ec, topK, chunkChars) ==
  LET picked == Min2(topK, ec.got)
      lens == {f.texts[i].len : i \in 1..Len(f.texts)}
      ranked == [fetched EXCEPT !.qVec = TRUE, !.asked = 1 + Len(names),
                                !.chunks = Len(names),
                                !.perPage = MaxChunks(f.texts, chunkChars),
                                !.size = chunkSize(CHOOSE m \in lens : \A x \in lens : x <= m,
                                                  chunkChars),
                                !.got = ec.got, !.picked = picked]
  IN IF picked = 0
     THEN [cache |-> ec.cache, len |-> 0, fetch |-> f.fetch, embed |-> ec.embed,
           rag |-> ranked]
     ELSE [cache |-> ec.cache, fetch |-> f.fetch, embed |-> ec.embed,
           len |-> 140 + picked * (60 + chunkChars) + 7 * (picked - 1),
           rag |-> [ranked EXCEPT !.kind = "ranked"]]

\* buildRagBlock, embed mode, after the question was embedded (eq): the raw
\* excerpts when there is no question vector, else the chunks are embedded
buildRagBlockEmbed(f, fetched, simple, eq, names, topK, chunkChars, ttl, cWorks) ==
  IF eq.got = 0
  THEN [simple EXCEPT !.cache = eq.cache, !.embed = eq.embed,
                      !.rag = [fetched EXCEPT !.kind = "fallback", !.asked = 1]]
  ELSE buildRagBlockPicked(f, fetched, names,
                           EmbedAll(names, cWorks, ttl, [eq EXCEPT !.got = 0]),
                           topK, chunkChars)

\* buildRagBlock after the pages were fetched (f): "" when no page has a
\* text, the excerpts in simple mode
buildRagBlockTexts(cfg, chosen, f, ttl, qWorks, cWorks) ==
  LET fetched == [NoRag EXCEPT !.kind = "none", !.chosen = chosen, !.texts = f.texts,
                               !.hits = f.hits, !.fetched = f.fetched, !.failed = f.failed]
      simple == [cache |-> f.cache, fetch |-> f.fetch, embed |-> 0,
                 len |-> 120 + SumExcerpts(f.texts) + 7 * (Len(f.texts) - 1),
                 rag |-> [fetched EXCEPT !.kind = "simple"]]
      topK == clampInt(NumOf(cfg, cfg.ragTopKChunks), 4, 1, GLOBAL_RAG_MAX_TOPK)
      chunkChars == clampInt(NumOf(cfg, cfg.ragChunkChars), 1200, 300, GLOBAL_RAG_MAX_CHUNK_CHARS)
  IN IF f.texts = <<>> THEN [ragNone EXCEPT !.cache = f.cache, !.fetch = f.fetch,
                                            !.rag = fetched]
     ELSE IF cfg.ragMode # "embed" THEN simple
     ELSE buildRagBlockEmbed(f, fetched, simple,
                             EmbedAll(<<"question">>, qWorks, ttl,
                                      [cache |-> f.cache, got |-> 0, embed |-> 0]),
                             ChunkNames(f.texts, chunkChars), topK, chunkChars, ttl, cWorks)

\* buildRagBlock after the URLs were chosen: the pages are fetched
buildRagBlockChosen(cfg, chosen, pages, ttl, qWorks, cWorks) ==
  IF chosen = <<>> THEN ragNone
  ELSE buildRagBlockTexts(cfg, chosen,
                          FetchAll(chosen, pages, ttl,
                                   [cache |-> KB_CACHE, texts |-> <<>>, fetch |-> 0,
                                    hits |-> {}, fetched |-> {}, failed |-> {}]),
                          ttl, qWorks, cWorks)

\* buildRagBlock(env, cfg, question): [cache, len, fetch, embed, rag], len the
\* length of the block.  The fixed texts are counted approximately.
buildRagBlock(cfg, q, pages, qWorks, cWorks) ==
  LET urls == cfg.knowledgeUrls
      maxUrls == clampInt(NumOf(cfg, cfg.ragMaxUrlsPerRequest), 2, 0, GLOBAL_RAG_MAX_URLS)
      ttl == clampInt(NumOf(cfg, cfg.ragCacheTtlSeconds), 86400, 60, 7 * 86400)
  IN IF ~cfg.ragEnabled \/ urls = <<>> \/ maxUrls <= 0 THEN ragNone
     ELSE buildRagBlockChosen(cfg, selectRelevantUrls(q, urls, maxUrls), pages, ttl,
                              qWorks, cWorks)

\* buildRagBlock letting the error of a failed page fetch escape to the router
ChatRagThrowing(r, pages, qWorks, cWorks) ==
  /\ chat[r].pc = "rag"
  /\ Ran(r, "rag")
  /\ LET b == buildRagBlock(chat[r].cfg, LastUser(chat[r].trimmed), pages, qWorks, cWorks)
     IN /\ KB_CACHE' = b.cache
        /\ calls' = [calls EXCEPT ![r].fetch = @ + b.fetch, ![r].embed = @ + b.embed]
        /\ IF b.rag.failed # {}
           THEN Finish(r, ErrResp(500, "SERVER_ERROR", EmptyStr, 0))
           ELSE Goto(r, [chat[r] EXCEPT !.pc = "assemble", !.ragLen = b.len, !.rag = b.rag])
  /\ UNCHANGED <<tick, nChats, rlLog, budLog>>

\* ragBlock = await buildRagBlock(env, cfg, lastUser)
ChatRag(r, pages, qWorks, cWorks) ==
  /\ chat[r].pc = "rag"
  /\ Ran(r, "rag")
  /\ LET b == buildRagBlock(chat[r].cfg, LastUser(chat[r].trimmed), pages, qWorks, cWorks)
     IN /\ KB_CACHE' = b.cache
        /\ calls' = [calls EXCEPT ![r].fetch = @ + b.fetch, ![r].embed = @ + b.embed]
        /\ Goto(r, [chat[r] EXCEPT !.pc = "assemble", !.ragLen = b.len, !.rag = b.rag])
  /\ UNCHANGED <<tick, nChats, rlLog, budLog>>

(***************************************************************************)
(* Prompt assembly.                                                        *)
(***************************************************************************)
\* the length of buildSystemPrompt(cfg): the fixed texts are counted
\* approximately, the tone as 26 characters
buildSystemPromptLen(cfg) == 760 + 26 + (IF cfg.actions.actionsEnabled THEN 560 ELSE 56)

\* the length of the `Website notes` block
knowledgeLen(cfg) == IF cfg.knowledge > 0 THEN 16 + cfg.knowledge + 1 ELSE 0

\* truncateTextToLimit(s, maxChars), on lengths: slice(0, maxChars - 1) + "…"
truncateTextToLimit(len, maxChars) == IF len <= maxChars THEN len ELSE (maxChars - 1) + 1

RECURSIVE SumLen(_)
\* input.reduce((sum, m) => sum + (m.content?.length || 0), 0)
SumLen(ms) == IF ms = <<>> THEN 0 ELSE ms[1].len + SumLen(Tail(ms))

\* the trimming loop going on after a turn that does not fit
RECURSIVE KeepLoopSkip(_, _, _)
KeepLoopSkip(kept, input, i) ==
  IF i < 2 THEN kept
  ELSE LET with == <<kept[1], input[i]>> \o Tail(kept)
       IN IF SumLen(with) > GLOBAL_MAX_TOTAL_INPUT_CHARS THEN KeepLoopSkip(kept, input, i - 1)
          ELSE KeepLoopSkip(with, input, i - 1)

RECURSIVE KeepLoop(_, _, _)
\* for (i = input.length - 1; i >= 1; i--): input[i] is spliced in right
\* after the system message and spliced out again, ending the loop, when the
\* size exceeds the ceiling (indexes are 1-based here)
KeepLoop(kept, input, i) ==
  IF i < 2 THEN kept
  ELSE LET with == <<kept[1], input[i]>> \o Tail(kept)
       IN IF SumLen(with) > GLOBAL_MAX_TOTAL_INPUT_CHARS THEN kept
          ELSE KeepLoop(with, input, i - 1)

\* the message list given to the inference service, for a system text of
\* sysLen characters before truncation
Assemble(sysLen, trimmed) ==
  LET sys == Msg("system", truncateTextToLimit(sysLen, GLOBAL_MAX_SYSTEM_CHARS), 0, {})
      input == <<sys>> \o trimmed
  IN IF SumLen(input) > GLOBAL_MAX_TOTAL_INPUT_CHARS
     THEN KeepLoop(<<sys>>, input, Len(input))
     ELSE input

\* systemContent, input and the total-size trimming
ChatAssemble(r) ==
  /\ chat[r].pc = "assemble"
  /\ LET cfg == chat[r].cfg
         sysLen == buildSystemPromptLen(cfg) + knowledgeLen(cfg) + chat[r].ragLen
     IN Goto(r, [chat[r] EXCEPT !.pc = "ai", !.input = Assemble(sysLen, chat[r].trimmed)])
  /\ UNCHANGED <<tick, KB_CACHE, hist, calls, nChats, rlLog, budLog>>

(***************************************************************************)
(* Model invocation, budget accounting, response.                          *)
(***************************************************************************)
\* estimateTokensFromText(s): Math.max(1, Math.ceil(chars / 4))
estimateTokensFromText(len) == Max2(1, (len + 3) \div 4)

RECURSIVE SumTokens(_)
\* estimatedPromptTokens
SumTokens(ms) == IF ms = <<>> THEN 0 ELSE estimateTokensFromText(ms[1].len) + SumTokens(Tail(ms))

\* rawText: the text of a result in one of the three shapes read, else ""
RawTextOf(ai) ==
  IF ai.shape \in {"response", "result.response", "output_text"} THEN ai.text ELSE NoOut

\* totalTokensEstimate = totalTokensFromModel ?? estimatedPromptTokens + completionTokensEstimate
totalTokensEstimate(ai, input) ==
  IF ai.usage >= 0 THEN ai.usage
  ELSE SumTokens(input) + estimateTokensFromText(RawTextOf(ai).len)

\* the inference step calling env.AI.run a second time after a failure
ChatAiRetrying(r, ok, ai) ==
  /\ chat[r].pc = "ai"
  /\ Ran(r, "ai")
  /\ calls' = [calls EXCEPT ![r].ai = @ + 1]
  /\ IF ~ok
     THEN /\ IF calls[r].ai >= 1
             THEN Finish(r, ErrResp(502, "AI_ERROR", chat[r].origin, 0))
             ELSE UNCHANGED <<chat, resp>>
          /\ UNCHANGED budLog
     ELSE /\ Goto(r, [chat[r] EXCEPT !.pc = "charge", !.ai = ai])
          /\ UNCHANGED budLog
  /\ UNCHANGED <<tick, KB_CACHE, nChats, rlLog>>

\* aiResult = await env.AI.run(model, ...): 502 when it throws
ChatAi(r, ok, ai) ==
  /\ chat[r].pc = "ai"
  /\ Ran(r, "ai")
  /\ calls' = [calls EXCEPT ![r].ai = @ + 1]
  /\ IF ~ok
     THEN /\ Finish(r, ErrResp(502, "AI_ERROR", chat[r].origin, 0))
          /\ UNCHANGED budLog
     ELSE /\ Goto(r, [chat[r] EXCEPT !.pc = "charge", !.ai = ai])
          /\ LET lk == <<chat[r].botId, DayOf(Now)>>
                 ck == <<chat[r].botId, chat[r].bud.day>>
                 l1 == LogPut(budLog, lk, [LogGet(budLog, lk, NoBudLog) EXCEPT !.succeeded = @ + 1])
             IN budLog' = LogPut(l1, ck, [LogGet(l1, ck, NoBudLog) EXCEPT !.counted = @ + 1])
  /\ UNCHANGED <<tick, KB_CACHE, nChats, rlLog>>

\* incrementDailyBudget forgetting the state it was given
incrementDailyBudgetAbsolute(state, addRequests, addTokens) ==
  [requests |-> Max2(0, Max2(0, addRequests)), tokens |-> Max2(0, Max2(0, addTokens))]

\* incrementDailyBudget: the state written
incrementDailyBudget(state, addRequests, addTokens) ==
  [requests |-> Max2(0, state.requests + Max2(0, addRequests)),
   tokens |-> Max2(0, state.tokens + Max2(0, addTokens))]

\* the budget update reading the stored state again before it adds to it
ChatChargeRereading(r) ==
  /\ chat[r].pc = "charge"
  /\ LET c == chat[r]
         state == BudgetStateOf(KbGet(BudgetKey(c.bud.dayKey, c.cfg.botId)))
         next == incrementDailyBudget(state, 1, totalTokensEstimate(c.ai, c.input))
     IN IF c.bud.tracked
        THEN /\ KB_CACHE' = KbPut(BudgetKey(c.bud.dayKey, c.cfg.botId),
                                  KbBudget(next.requests, next.tokens, Now + 3 * 86400))
             /\ Ran(r, "charge")
             /\ calls' = [calls EXCEPT ![r].budPut = @ + 1]
        ELSE UNCHANGED <<KB_CACHE, hist, calls>>
  /\ Goto(r, [chat[r] EXCEPT !.pc = "act"])
  /\ UNCHANGED <<tick, nChats, rlLog, budLog>>

\* the budget update after a successful call: put under the day key of the
\* check with expirationTtl 3 days, when the check returned a state
ChatCharge(r) ==
  /\ chat[r].pc = "charge"
  /\ LET c == chat[r]
         next == incrementDailyBudget([requests |-> c.bud.requests, tokens |-> c.bud.tokens],
                                      1, totalTokensEstimate(c.ai, c.input))
     IN IF c.bud.tracked
        THEN /\ KB_CACHE' = KbPut(BudgetKey(c.bud.dayKey, c.cfg.botId),
                                  KbBudget(next.requests, next.tokens, Now + 3 * 86400))
             /\ Ran(r, "charge")
             /\ calls' = [calls EXCEPT ![r].budPut = @ + 1]
        ELSE UNCHANGED <<KB_CACHE, hist, calls>>
  /\ Goto(r, [chat[r] EXCEPT !.pc = "act"])
  /\ UNCHANGED <<tick, nChats, rlLog, budLog>>

\* String.prototype.trim on the modelled texts
TrimStr(s) == IF s = "  " THEN "" ELSE IF s = " Hello " THEN "Hello" ELSE s

\* extractActionFromModelOutput(rawText): [message, action], action "" for none
extractActionFromModelOutput(out) ==
  IF out.json = "obj" /\ out.hasAction /\ out.atype \in ActionTypes
  THEN [message |-> out.msg, action |-> out.atype]
  ELSE IF out.json = "obj" /\ out.msg # ""
  THEN [message |-> out.msg, action |-> ""]
  ELSE [message |-> TrimStr(out.raw), action |-> ""]

\* the action policy without the actionsEnabled test
enforcePolicyTrusting(cfg, action) ==
  IF action = "" THEN ""
  ELSE IF cfg.actions.allowedActionTypes # {} /\ action \notin cfg.actions.allowedActionTypes
  THEN "none"
  ELSE action

\* the server-side action policy: finalAction, "" for undefined
enforcePolicy(cfg, action) ==
  LET enabled == cfg.actions.actionsEnabled
      allowed == IF cfg.actions.allowedActionTypes # {} THEN cfg.actions.allowedActionTypes
                 ELSE IF enabled THEN ActionTypes ELSE {"none"}
  IN IF action = "" THEN ""
     ELSE IF ~enabled THEN ""
     ELSE IF action \notin allowed THEN "none"
     ELSE action

Fallback == "Sorry - I couldn't generate a response."
\* safeMessage
safeMessage(message) == IF TrimStr(message) # "" THEN TrimStr(message) ELSE Fallback

\* maybeFireWebhook without the test of the action kind
maybeFireWebhookAnyKind(cfg, action) ==
  /\ cfg.actions.actionsEnabled
  /\ cfg.actions.webhookUrl # EmptyStr

\* maybeFireWebhook: is the POST made?
maybeFireWebhook(cfg, action) ==
  /\ cfg.actions.actionsEnabled
  /\ cfg.actions.webhookUrl # EmptyStr
  /\ action \in {"create_lead", "webhook"}

OkResp(c) ==
  [NoResp EXCEPT
     !.status = 200, !.acao = c.origin, !.message = c.reply.message,
     !.action = IF c.reply.action = "" THEN NoAction
                ELSE [type |-> c.reply.action, contactUrl |-> c.reply.action = "open_contact"]]

\* the reply is parsed, the policy applied; the webhook POST is issued and
\* awaited when maybeFireWebhook makes one, else the 200 response is built
ChatAct(r) ==
  /\ chat[r].pc = "act"
  /\ Ran(r, "act")
  /\ LET c == chat[r]
         ex == extractActionFromModelOutput(RawTextOf(c.ai))
         finalAction == enforcePolicy(c.cfg, ex.action)
         c2 == [c EXCEPT !.reply = [message |-> safeMessage(ex.message), action |-> finalAction]]
     IN IF finalAction # "" /\ maybeFireWebhook(c.cfg, finalAction)
        THEN /\ Goto(r, [c2 EXCEPT !.pc = "webhook"])
             /\ calls' = [calls EXCEPT ![r].webhook = @ + 1]
        ELSE /\ Finish(r, OkResp(c2))
             /\ UNCHANGED calls
  /\ UNCHANGED <<tick, KB_CACHE, nChats, rlLog, budLog>>

\* the webhook fetch settles (2xx, non-2xx or a network error, all ignored)
\* and the 200 response is built
ChatWebhookDone(r, outcome) ==
  /\ chat[r].pc = "webhook"
  /\ Finish(r, OkResp(chat[r]))
  /\ UNCHANGED <<tick, KB_CACHE, hist, calls, nChats, rlLog, budLog>>

\* an outbound call of the request never answers.  The page fetch
\* (getCachedUrlText), the embedding call (embedText), env.AI.run and the
\* webhook fetch are awaited with no timeout and no abort signal, so the
\* request is suspended at that await for good: pc "pending", waits the call
ChatHang(r, call) ==
  /\ LET c == chat[r]
         b == buildRagBlock(c.cfg, LastUser(c.trimmed), <<500>>, TRUE, TRUE)
     IN \/ c.pc = "rag" /\ call = "fetch" /\ b.fetch > 0
        \/ c.pc = "rag" /\ call = "embed" /\ b.embed > 0
        \/ c.pc = "ai" /\ call = "ai"
        \/ c.pc = "webhook" /\ call = "webhook"
  /\ Goto(r, [chat[r] EXCEPT !.pc = "pending", !.waits = call])
  /\ calls' = [calls EXCEPT ![r] = [fetch |-> @.fetch + (IF call = "fetch" THEN 1 ELSE 0),
                                    embed |-> @.embed + (IF call = "embed" THEN 1 ELSE 0),
                                    ai |-> @.ai + (IF call = "ai" THEN 1 ELSE 0),
                                    webhook |-> @.webhook,
                                    rlPut |-> @.rlPut, budPut |-> @.budPut]]
  /\ UNCHANGED <<tick, KB_CACHE, hist, nChats, rlLog, budLog>>

\* time passes
Tick ==
  /\ tick < Len(Clock)
  /\ tick' = tick + 1
  /\ UNCHANGED <<KB_CACHE, chat, resp, hist, calls, nChats, rlLog, budLog>>

(***************************************************************************)
(* The admin handlers that read: /admin/get, /admin/list and               *)
(* /admin/kb/refresh.                                                      *)
(***************************************************************************)
\* handleAdminGet: requireAdmin, the body, `await env.BOT_CONFIG.get`, the
\* answer with the parsed value
AdminGet(a, token, body) ==
  /\ adm[a].pc = "idle"
  /\ nUpserts' = nUpserts + 1
  /\ LET val == KvGet(BOT_CONFIG, CfgKey(body.botId))
         got == [Rejected("get", token, NoAdmResp) EXCEPT !.reads = 1]
     IN admResp' = [admResp EXCEPT ![a] =
          IF requireAdmin(token) # ""
          THEN Rejected("get", token, RouterCatch(requireAdmin(token)))
          ELSE IF ~body.isObject \/ body.botId = ""
          THEN Rejected("get", token, AdmResp(400, "BAD_REQUEST", NoExisting))
          ELSE IF val.kind = "none"
          THEN [got EXCEPT !.status = 404, !.error = "NOT_FOUND"]
          ELSE [got EXCEPT !.status = 200, !.cfg = val.cfg, !.ids = val.ids]]
  /\ UNCHANGED <<ADMIN_TOKEN, BOT_CONFIG, adm, nWrites, lastUp>>

\* handleAdminList: requireAdmin, `await env.BOT_CONFIG.get("cfg:index")`,
\* botIds = the parsed value when it is an array, else []
AdminList(a, token) ==
  /\ adm[a].pc = "idle"
  /\ nUpserts' = nUpserts + 1
  /\ admResp' = [admResp EXCEPT ![a] =
       IF requireAdmin(token) # ""
       THEN Rejected("list", token, RouterCatch(requireAdmin(token)))
       ELSE [Rejected("list", token, NoAdmResp) EXCEPT
               !.status = 200, !.ids = IdsOf(KvGet(BOT_CONFIG, IndexKey)), !.reads = 1]]
  /\ UNCHANGED <<ADMIN_TOKEN, BOT_CONFIG, adm, nWrites, lastUp>>

\* handleKbRefresh up to its loop: requireAdmin, the body, the stored
\* record, urls.slice(0, 30) of its sanitized knowledgeUrls
AdminKbBegin(a, token, body) ==
  /\ adm[a].pc = "idle"
  /\ nUpserts' = nUpserts + 1
  /\ LET val == KvGet(BOT_CONFIG, CfgKey(body.botId))
         cfg == ExistingOf(val)
         urls == sanitizeUrlList([arr |-> cfg.isCfg, list |-> cfg.knowledgeUrls])
         got == [Rejected("kb", token, NoAdmResp) EXCEPT !.reads = 1]
     IN IF requireAdmin(token) # ""
        THEN /\ admResp' = [admResp EXCEPT ![a] =
                               Rejected("kb", token, RouterCatch(requireAdmin(token)))]
             /\ UNCHANGED adm
        ELSE IF ~body.isObject \/ body.botId = ""
        THEN /\ admResp' = [admResp EXCEPT ![a] =
                               Rejected("kb", token, AdmResp(400, "BAD_REQUEST", NoExisting))]
             /\ UNCHANGED adm
        ELSE IF val.kind = "none"
        THEN /\ admResp' = [admResp EXCEPT ![a] = [got EXCEPT !.status = 404, !.error = "NOT_FOUND"]]
             /\ UNCHANGED adm
        ELSE IF urls = <<>>
        THEN /\ admResp' = [admResp EXCEPT ![a] = [got EXCEPT !.status = 200]]
             /\ UNCHANGED adm
        ELSE /\ adm' = [adm EXCEPT ![a] =
                          [IdleAdm EXCEPT !.pc = "kb", !.body = body, !.route = "kb",
                             !.token = token, !.reads = 1,
                             !.urls = SubSeq(urls, 1, Min2(30, Len(urls))),
                             !.ttl = clampInt(NumOf(cfg, cfg.ragCacheTtlSeconds), 86400, 60, 7 * 86400)]]
             /\ admResp' = [admResp EXCEPT ![a] = NoAdmResp]
  /\ UNCHANGED <<ADMIN_TOKEN, BOT_CONFIG, nWrites, lastUp>>

\* one turn of the loop of handleKbRefresh: getCachedUrlText(env, u, ttl,
\* true) fetches the page and stores its text; a failed fetch (page < 0) is
\* ignored.  After the last page the answer is { ok, refreshed }
AdminKbFetch(a, page) ==
  /\ adm[a].pc = "kb"
  /\ LET u == adm[a].urls[1]
         ok == page >= 0
         after == [adm[a] EXCEPT !.urls = Tail(@), !.fetches = @ + 1,
                                  !.own = @ + (IF ok THEN 1 ELSE 0),
                                  !.refreshed = @ + (IF ok THEN 1 ELSE 0)]
     IN /\ KB_CACHE' = IF ok THEN KbPut(KbKey(u), KbText(Min2(page, 60000), Now + adm[a].ttl))
                       ELSE KB_CACHE
        /\ IF after.urls = <<>>
           THEN /\ adm' = [adm EXCEPT ![a] = IdleAdm]
                /\ admResp' = [admResp EXCEPT ![a] =
                      [NoAdmResp EXCEPT !.status = 200, !.refreshed = after.refreshed,
                         !.route = "kb", !.token = after.token, !.reads = after.reads,
                         !.writes = after.own, !.fetches = after.fetches,
                         !.botId = after.body.botId, !.chats = nChats]]
           ELSE /\ adm' = [adm EXCEPT ![a] = after]
                /\ UNCHANGED admResp
  /\ UNCHANGED <<ADMIN_TOKEN, BOT_CONFIG, nUpserts, nWrites, lastUp>>

(***************************************************************************)
(* Inputs.                                                                 *)
(***************************************************************************)
SiteOrigin == Str(TRUE, "https", "site.example", 0, "")
SitePage == Str(TRUE, "https", "site.example", 443, "/home")
EvilOrigin == Str(TRUE, "https", "evil.example", 0, "")
Garbage == Str(FALSE, "", "garbage", 0, "")
PricingUrl == Str(TRUE, "https", "site.example", 0, "/pricing")
HookUrl == Str(TRUE, "https", "hooks.example", 0, "/lead")

\* bot "a": key, allowlist, 2 requests per 10 s, 1 request per day, actions
\* with a webhook, one knowledge URL in simple mode
BodyA1 ==
  [BaseBody("a") EXCEPT
     !.botKey = "k1",
     !.allowedOrigins = ListOf(<<SitePage, Garbage>>),
     !.rateLimit = [limit |-> J("num", 20), windowSeconds |-> J("str", 100)],
     !.dailyBudget = [given |-> TRUE, maxRequestsPerDay |-> J("num", 10), maxTokensPerDay |-> JUndef],
     !.actions = [given |-> TRUE, actionsEnabled |-> TRUE, webhookUrl |-> HookUrl,
                  hasTypes |-> FALSE, types |-> {}],
     !.knowledge = 100,
     !.knowledgeUrls = ListOf(<<PricingUrl>>),
     !.ragEnabled = "true"]

\* bot "a" again: no key, 1 request per 10 s, 2 requests and 400 tokens per
\* day, actions switched off, embed mode
BodyA2 ==
  [BaseBody("a") EXCEPT
     !.botKey = "",
     !.rateLimit = [limit |-> J("num", 10), windowSeconds |-> J("num", 100)],
     !.dailyBudget = [given |-> TRUE, maxRequestsPerDay |-> J("num", 20),
                      maxTokensPerDay |-> J("num", 4000)],
     !.actions = [given |-> TRUE, actionsEnabled |-> FALSE, webhookUrl |-> HookUrl,
                  hasTypes |-> TRUE, types |-> {"create_lead", "none"}],
     !.ragMode = "embed"]

\* bot "b": actions restricted to two kinds, everything else by default
BodyB ==
  [BaseBody("b") EXCEPT
     !.actions = [given |-> TRUE, actionsEnabled |-> TRUE, webhookUrl |-> HookUrl,
                  hasTypes |-> TRUE, types |-> {"open_contact", "none"}]]

AdminTokens == {"tok", "bad"}

ChatBody(botId, isObject, hasMessages, hasOrigin) ==
  [botId |-> botId, isObject |-> isObject, hasMessages |-> hasMessages, hasOrigin |-> hasOrigin]

Hdr(origin, host, xfHost, xfProto) ==
  [origin |-> origin, host |-> host, xfHost |-> xfHost, xfProto |-> xfProto]

Hello == <<Msg("user", 5, 1, {"hello"})>>
PriceTalk == <<Msg("user", 9000, 1, {"hello"}), Msg("assistant", 40, 2, {}),
               Msg("user", 20, 3, {"what", "is", "the", "price"})>>
NoTurns == <<Msg("system", 50, 1, {}), Msg("user", 0, 2, {})>>

PlainOut == Out(" Hello ", "no", "", FALSE, "", 7)
EmptyOut == Out("  ", "no", "", FALSE, "", 2)
Envelope(atype) == Out("{env:" \o atype \o "}", "obj", "Hi there", TRUE, atype, 80)
NoMsgEnvelope == Out("{env:nomsg}", "obj", "", TRUE, "webhook", 40)
\* {"action":{"type":"delete_all"}}: an envelope whose type is outside the enum
NoMsgUnknown == Out("{env:nomsg-unknown}", "obj", "", TRUE, "delete_all", 40)
\* {"message":"  ","action":{"type":"none"}}: a message of blanks
BlankMsgEnvelope == Out("{env:blank}", "obj", "  ", TRUE, "none", 50)
MsgOnly == Out("{msg}", "obj", "Just text", FALSE, "", 30)
BadJson == Out("{oops}", "bad", "", FALSE, "", 6)

Ai(shape, text, usage) == [shape |-> shape, text |-> text, usage |-> usage]

\* the inputs of the chat steps: every kind of request
AllInputs ==
  [bodies |-> {ChatBody(b, TRUE, TRUE, o) : b \in {"a", "b", "index", "zz"}, o \in BOOLEAN}
              \cup {ChatBody("a", TRUE, FALSE, FALSE), ChatBody("", TRUE, TRUE, TRUE),
                    ChatBody("a", FALSE, FALSE, FALSE)},
   keys |-> {<<"", "">>, <<"k1", "">>, <<"", "k1">>, <<"bad", "k1">>},
   headers |-> {Hdr(o, h, x, p) : o \in {EmptyStr, SiteOrigin, SitePage, EvilOrigin, Garbage},
                                  h \in {"", "api.example"}, x \in {"", "site.example"},
                                  p \in {"", "http"}},
   ips |-> {<<"1.1.1.1", "">>, <<"", "2.2.2.2">>, <<"", "">>},
   msgs |-> {Hello, PriceTalk, NoTurns},
   pages |-> {<<-1>>, <<0>>, <<500>>, <<3000>>},
   works |-> BOOLEAN,
   aiOk |-> BOOLEAN,
   ais |-> {Ai("response", PlainOut, -1), Ai("response", EmptyOut, 0),
            Ai("string", PlainOut, -1), Ai("output_text", BadJson, 12),
            Ai("result.response", MsgOnly, 33), Ai("response", NoMsgEnvelope, -1),
            Ai("response", NoMsgUnknown, -1), Ai("output_text", BlankMsgEnvelope, -1)}
           \cup {Ai("response", Envelope(t), 7) :
                   t \in {"open_contact", "create_lead", "webhook", "none", "delete_all"}},
   hooks |-> {"ok", "non2xx", "error"}]

\* a request that passes every check of bot "a" and gets a lead back
PlainInputs ==
  [bodies |-> {ChatBody("a", TRUE, TRUE, FALSE)},
   keys |-> {<<"k1", "">>},
   headers |-> {Hdr(EmptyStr, "", "", "")},
   ips |-> {<<"1.1.1.1", "">>},
   msgs |-> {Hello},
   pages |-> {<<500>>},
   works |-> {TRUE},
   aiOk |-> {TRUE},
   ais |-> {Ai("response", Envelope("create_lead"), 7)},
   hooks |-> {"ok"}]

(***************************************************************************)
(* Specifications.                                                         *)
(***************************************************************************)
admVars == <<ADMIN_TOKEN, BOT_CONFIG, adm, admResp, nUpserts, nWrites, lastUp>>
chatVars == <<tick, KB_CACHE, chat, resp, hist, calls, nChats, rlLog, budLog>>
vars == <<admVars, chatVars, probe>>

Slots == {1, 2}
AdminSlots == {1}

InitWith(slots, tokens, p) ==
  /\ ADMIN_TOKEN \in tokens
  /\ BOT_CONFIG = <<>>
  /\ adm = [a \in AdminSlots |-> IdleAdm]
  /\ admResp = [a \in AdminSlots |-> NoAdmResp]
  /\ nUpserts = 0
  /\ nWrites = 0
  /\ lastUp = NoLastUp
  /\ tick = 1
  /\ KB_CACHE = <<>>
  /\ chat = [r \in slots |-> IdleChat]
  /\ resp = [r \in slots |-> NoResp]
  /\ hist = [r \in slots |-> <<>>]
  /\ calls = [r \in slots |-> NoCalls]
  /\ nChats = 0
  /\ rlLog = <<>>
  /\ budLog = <<>>
  /\ probe = p

\* one step of the admin request of slot a
\* no admin request is in flight
SetupDone == \A a \in AdminSlots : adm[a].pc = "idle"

AdminFrame == UNCHANGED <<chatVars, probe>>
AdminNext(a, tokens, bodies, max) ==
  \/ \E token \in tokens, body \in bodies :
       nUpserts < max /\ AdminUpsertBegin(a, token, body) /\ AdminFrame
  \/ AdminUpsertPut(a) /\ AdminFrame
  \/ AdminIndexGet(a) /\ AdminFrame
  \/ AdminIndexPut(a) /\ AdminFrame

\* one step of the chat request of slot r
ChatFrame == UNCHANGED <<admVars, probe>>
ChatNext(r, in, max) ==
  \/ \E body \in in.bodies : nChats < max /\ SetupDone /\ ChatBegin(r, body) /\ ChatFrame
  \/ ChatLookup(r) /\ ChatFrame
  \/ \E k \in in.keys : ChatKey(r, k[1], k[2]) /\ ChatFrame
  \/ \E h \in in.headers : ChatOrigin(r, h) /\ ChatFrame
  \/ \E ip \in in.ips : ChatRateGet(r, ip[1], ip[2]) /\ ChatFrame
  \/ ChatRatePut(r) /\ ChatFrame
  \/ ChatBudget(r) /\ ChatFrame
  \/ \E ms \in in.msgs : ChatSanitize(r, ms) /\ ChatFrame
  \/ \E pages \in in.pages, qw \in in.works, cw \in in.works :
       ChatRag(r, pages, qw, cw) /\ ChatFrame
  \/ ChatAssemble(r) /\ ChatFrame
  \/ \E ok \in in.aiOk, ai \in in.ais : ChatAi(r, ok, ai) /\ ChatFrame
  \/ ChatCharge(r) /\ ChatFrame
  \/ ChatAct(r) /\ ChatFrame
  \/ \E o \in in.hooks : ChatWebhookDone(r, o) /\ ChatFrame

TickNext(max) == tick <= max /\ Tick /\ ChatFrame

NoProbe == [body |-> NotAnObject, msgs |-> <<>>,
            q |-> {}, urls |-> <<>>, max |-> 0, chosen |-> <<>>]

\* the store after the bodies have been upserted one after the other
RECURSIVE Configured(_)
Configured(bodies) ==
  IF bodies = <<>> THEN <<>>
  ELSE LET before == Configured(SubSeq(bodies, 1, Len(bodies) - 1))
           body == bodies[Len(bodies)]
           cfg == normalizeConfig(body, ExistingOf(KvGet(before, CfgKey(body.botId))))
           put == KvPut(before, CfgKey(body.botId), CfgValue(cfg))
           ids == IdsOf(KvGet(put, IndexKey))
       IN IF \E i \in 1..Len(ids) : ids[i] = body.botId THEN put
          ELSE KvPut(put, IndexKey, IdsValue(LastN(Append(ids, body.botId), IndexCap)))

\* the chat service with its bots configured and no request in flight
InitServing(slots, stores, p) ==
  /\ ADMIN_TOKEN = "tok"
  /\ BOT_CONFIG \in stores
  /\ adm = [a \in AdminSlots |-> IdleAdm]
  /\ admResp = [a \in AdminSlots |-> NoAdmResp]
  /\ nUpserts = 0
  /\ nWrites = 0
  /\ lastUp = NoLastUp
  /\ tick = 1
  /\ KB_CACHE = <<>>
  /\ chat = [r \in slots |-> IdleChat]
  /\ resp = [r \in slots |-> NoResp]
  /\ hist = [r \in slots |-> <<>>]
  /\ calls = [r \in slots |-> NoCalls]
  /\ nChats = 0
  /\ rlLog = <<>>
  /\ budLog = <<>>
  /\ probe = p

(***************************************************************************)
(* Spec: chat requests of two clients in parallel, at one instant.          *)
(***************************************************************************)
MaxChats == 2

ParInputs ==
  [PlainInputs EXCEPT
     !.bodies = {ChatBody("a", TRUE, TRUE, TRUE), ChatBody("a", TRUE, TRUE, FALSE),
                 ChatBody("b", TRUE, TRUE, FALSE), ChatBody("zz", TRUE, TRUE, FALSE),
                 ChatBody("a", FALSE, FALSE, FALSE)},
     !.keys = {<<"", "">>, <<"k1", "">>},
     !.headers = {Hdr(SiteOrigin, "", "", ""), Hdr(EvilOrigin, "", "", ""),
                  Hdr(EmptyStr, "", "", "")},
     !.msgs = {Hello, NoTurns},
     !.aiOk = BOOLEAN,
     !.ais = {Ai("response", PlainOut, -1), Ai("response", Envelope("create_lead"), 7)}]

Init == InitServing(Slots, {Configured(<<BodyA1, BodyB>>), Configured(<<BodyA2, BodyB>>)}, NoProbe)
Next == \E r \in Slots : ChatNext(r, ParInputs, MaxChats)
Spec == Init /\ [][Next]_vars

(***************************************************************************)
(* Properties of the chat pipeline under Spec.                             *)
(***************************************************************************)
IsPrefix(s, t) == Len(s) <= Len(t) /\ SubSeq(t, 1, Len(s)) = s
Pipeline == <<"lookup", "key", "origin", "rate", "budget", "sanitize", "rag", "ai">>
Occurrences(s, x) == Cardinality({i \in 1..Len(s) : s[i] = x})
InFlight(r) == chat[r].pc # "idle"

\* C1: every chat request calls the inference service at most once, and only
\* after bot lookup, key check, origin check, rate-limit check and budget
\* check have run in this order and let it through; a request answered 404,
\* 401, 403 or 429 ran exactly the steps up to the one that rejected it and
\* made no inference call; a request whose inference call failed ended right
\* there with 502.
C1_SingleGatedInference ==
  \A r \in DOMAIN chat :
    /\ calls[r].ai <= 1
    /\ calls[r].ai = Occurrences(hist[r], "ai")
    /\ IsPrefix(SubSeq(hist[r], 1, Min2(Len(hist[r]), Len(Pipeline))), Pipeline)
    /\ resp[r].status = 404 => hist[r] = SubSeq(Pipeline, 1, 1)
    /\ resp[r].status = 401 => hist[r] = SubSeq(Pipeline, 1, 2)
    /\ resp[r].status = 403 => hist[r] = SubSeq(Pipeline, 1, 3)
    /\ resp[r].status = 429 =>
         \/ resp[r].error = "RATE_LIMITED" /\ hist[r] = SubSeq(Pipeline, 1, 4)
         \/ resp[r].error = "BUDGET_EXCEEDED" /\ hist[r] = SubSeq(Pipeline, 1, 5)
    /\ resp[r].status \in {400, 401, 403, 404, 429} => calls[r].ai = 0
    /\ resp[r].status = 502 <=> (~InFlight(r) /\ hist[r] = Pipeline)
    /\ resp[r].status \in {200, 502} => calls[r].ai = 1

\* C1 witness: one request was answered 502 after its single inference call
\* while the other was turned away by the rate limit.
C1_Witness ==
  \E r1, r2 \in DOMAIN chat :
    /\ r1 # r2
    /\ resp[r1].status = 502 /\ calls[r1].ai = 1
    /\ resp[r2].error = "RATE_LIMITED" /\ calls[r2].ai = 0

Ceil4(len) == IF len % 4 = 0 THEN len \div 4 ELSE (len \div 4) + 1
RECURSIVE EstimateAll(_)
EstimateAll(ms) == IF ms = <<>> THEN 0 ELSE Max2(1, Ceil4(ms[1].len)) + EstimateAll(Tail(ms))
\* the tokens a request at its charge step accounts for
C4_Tokens(c) ==
  IF c.ai.usage >= 0 THEN c.ai.usage
  ELSE EstimateAll(c.input)
       + Max2(1, Ceil4(IF c.ai.shape \in {"response", "result.response", "output_text"}
                       THEN c.ai.text.len ELSE 0))
C4_HasCeiling(cfg) ==
  cfg.dailyBudget.set /\ (cfg.dailyBudget.maxRequestsPerDay > 0 \/ cfg.dailyBudget.maxTokensPerDay > 0)
C4_Key(c) == "bud:v1:d" \o ToString(c.bud.day) \o ":" \o c.botId
C4_Charging(r) == chat[r].pc = "charge" /\ chat'[r].pc # "charge"

\* C4 (amended): a budget record changes only in the step in which a request
\* whose own inference call has returned successfully accounts for it; that
\* request, when its bot has a positive daily ceiling, writes requests + 1 and
\* tokens + t over the values it read at the budget check, into the record of
\* the day of that check; a request of a bot without a positive ceiling
\* writes nothing.
C4_BudgetChargedAfterSuccess ==
  [][/\ \A k \in DOMAIN KB_CACHE' :
          (KB_CACHE'[k].kind = "budget" /\ (k \notin DOMAIN KB_CACHE \/ KB_CACHE[k] # KB_CACHE'[k]))
          => \E r \in DOMAIN chat :
               C4_Charging(r) /\ calls[r].ai = 1 /\ Occurrences(hist[r], "ai") = 1
               /\ k = C4_Key(chat[r])
     /\ \A r \in DOMAIN chat :
          C4_Charging(r) =>
            IF C4_HasCeiling(chat[r].cfg)
            THEN /\ C4_Key(chat[r]) \in DOMAIN KB_CACHE'
                 /\ KB_CACHE'[C4_Key(chat[r])].kind = "budget"
                 /\ KB_CACHE'[C4_Key(chat[r])].n = chat[r].bud.requests + 1
                 /\ KB_CACHE'[C4_Key(chat[r])].tokens = chat[r].bud.tokens + C4_Tokens(chat[r])
            ELSE KB_CACHE' = KB_CACHE]_vars

\* C4 witness: a budget record that a second successful request has raised
\* to two requests.
C4_Witness ==
  \E k \in DOMAIN KB_CACHE :
    KB_CACHE[k].kind = "budget" /\ KB_CACHE[k].n = 2 /\ KB_CACHE[k].tokens > 0

\* C4 as stated: every request answered 200 has written the budget record.
C4_EverySuccessCharges ==
  \A r \in DOMAIN chat : resp[r].status = 200 => Occurrences(hist[r], "charge") = 1

\* C17 as stated: every response to a chat request that carries an Origin
\* header, other than the 403 of the origin step, has an
\* Access-Control-Allow-Origin header (sent together with Vary: Origin),
\* and it is the origin the request came with.
C17_CorsOnEveryResponse ==
  \A r \in DOMAIN resp :
    (resp[r].status \notin {0, 403} /\ resp[r].hasOrigin) =>
      /\ resp[r].acao # EmptyStr
      /\ resp[r].reqOrigin # EmptyStr => resp[r].acao = resp[r].reqOrigin

(***************************************************************************)
(* SpecRate: the requests of two client addresses, one at a time, while    *)
(* the clock moves from one rate-limit window into the next.               *)
(***************************************************************************)
RateChats == 4
RateTicks == 2

RateInputs ==
  [PlainInputs EXCEPT
     !.ips = {<<"1.1.1.1", "">>, <<"", "2.2.2.2">>},
     !.aiOk = BOOLEAN]

InitRate == InitServing({1}, {Configured(<<BodyA1>>), Configured(<<BodyA2>>)}, NoProbe)
NextRate ==
  \/ ChatNext(1, RateInputs, RateChats)
  \/ TickNext(RateTicks)
SpecRate == InitRate /\ [][NextRate]_vars

\* the configuration stored for a bot
StoredCfg(botId) == ExistingOf(KvGet(BOT_CONFIG, CfgKey(botId)))

\* C2: with requests handled one at a time, in every window of a (bot,
\* client address) exactly the first L requests that reach the rate-limit
\* step pass it, L the bot's rateLimit.limit; each later one is answered 429
\* RATE_LIMITED with Retry-After equal to windowSeconds; in the next window
\* requests pass again.
C2_FirstLPassPerWindow ==
  /\ \A lk \in DOMAIN rlLog :
       rlLog[lk].passed = Min2(rlLog[lk].reached, StoredCfg(lk[1]).rateLimit.limit)
  /\ \A r \in DOMAIN resp :
       resp[r].error = "RATE_LIMITED" =>
         /\ resp[r].status = 429
         /\ resp[r].retryAfter = StoredCfg(resp[r].botId).rateLimit.windowSeconds
         /\ hist[r][Len(hist[r])] = "rate"

\* C2 witness: one client address was turned away in a window in which L
\* of its requests had passed, and passed again in the next window.
C2_Witness ==
  \E lk, nx \in DOMAIN rlLog :
    /\ lk[1] = nx[1] /\ lk[2] = nx[2] /\ nx[3] = lk[3] + 1
    /\ rlLog[lk].reached > rlLog[lk].passed
    /\ rlLog[lk].passed = StoredCfg(lk[1]).rateLimit.limit
    /\ rlLog[nx].passed >= 1
    /\ \E r \in DOMAIN resp : resp[r].status = 200

(***************************************************************************)
(* SpecBudget: the requests of a bot with a daily request ceiling, one at  *)
(* a time, while the clock moves over midnight UTC.                        *)
(***************************************************************************)
BudgetChats == 3
BudgetTicks == 2

InitBudget == InitServing({1}, {Configured(<<BodyA1>>), Configured(<<BodyA2>>)}, NoProbe)
NextBudget ==
  \/ ChatNext(1, RateInputs, BudgetChats)
  \/ TickNext(BudgetTicks)
SpecBudget == InitBudget /\ [][NextBudget]_vars

\* the request ceiling of a bot, 0 when it has none
CeilingOf(botId) ==
  IF StoredCfg(botId).dailyBudget.set THEN StoredCfg(botId).dailyBudget.maxRequestsPerDay ELSE 0
BudLogOf(log, lk) == IF lk \in DOMAIN log THEN log[lk] ELSE NoBudLog

\* C3 (amended): for a bot with maxRequestsPerDay = N > 0 whose requests are
\* handled one at a time, a request is let through the budget step of a UTC
\* day only while fewer than N calls that passed the budget step on that day
\* have succeeded; from then on each request reaching the budget step on that
\* day, whatever its client address, is answered 429 BUDGET_EXCEEDED without
\* an inference call; the first request reaching the budget step on a new
\* day is let through.
C3_CeilingPerCheckedDay ==
  [][/\ \A lk \in DOMAIN budLog' :
          CeilingOf(lk[1]) > 0 =>
            /\ budLog'[lk].admitted > BudLogOf(budLog, lk).admitted
                 => BudLogOf(budLog, lk).counted < CeilingOf(lk[1])
            /\ budLog'[lk].refused > BudLogOf(budLog, lk).refused
                 => BudLogOf(budLog, lk).admitted > 0
     /\ \A r \in DOMAIN resp :
          resp'[r].error = "BUDGET_EXCEEDED" =>
            resp'[r].status = 429 /\ calls'[r].ai = 0 /\ ~InFlight(r)']_vars

\* C3 witness: on one day N calls succeeded and a later request was refused,
\* and on the next day a request was let through.
C3_Witness ==
  \E lk, nx \in DOMAIN budLog :
    /\ lk[1] = nx[1] /\ nx[2] = lk[2] + 1
    /\ CeilingOf(lk[1]) > 0
    /\ budLog[lk].counted = CeilingOf(lk[1])
    /\ budLog[lk].refused >= 1
    /\ budLog[nx].admitted >= 1

\* C3 as stated: a request is let through the budget step of a UTC day only
\* while fewer than N calls have succeeded on that day.
C3_CeilingPerSuccessDay ==
  [][\A lk \in DOMAIN budLog' :
       (CeilingOf(lk[1]) > 0 /\ budLog'[lk].admitted > BudLogOf(budLog, lk).admitted)
         => BudLogOf(budLog, lk).succeeded < CeilingOf(lk[1])]_vars

\* the seconds from ts to the end of its UTC day
C14_RestOfDay(ts) == DaySeconds - (ts % DaySeconds)

\* C14 as stated: the Retry-After of a 429 BUDGET_EXCEEDED is the time left
\* until the end of the UTC day on which the request is rejected, at
\* whatever time of day that happens.
C14_RetryAfterRestOfDay ==
  [][\A r \in DOMAIN chat :
       (chat[r].pc = "budget" /\ resp'[r].error = "BUDGET_EXCEEDED") =>
         resp'[r].retryAfter = C14_RestOfDay(Now)]_vars

(***************************************************************************)
(* SpecOrigin: requests with every combination of Origin, Host and         *)
(* forwarding headers, for a bot with an allowlist and a bot without one.  *)
(***************************************************************************)
OriginChats == 2

OriginInputs ==
  [PlainInputs EXCEPT
     !.bodies = {ChatBody(b, TRUE, TRUE, o) : b \in {"a", "b"}, o \in BOOLEAN},
     !.headers = AllInputs.headers]

InitOrigin == InitServing(Slots, {Configured(<<BodyA1, BodyB>>)}, NoProbe)
NextOrigin == \E r \in Slots : ChatNext(r, OriginInputs, OriginChats)
SpecOrigin == InitOrigin /\ [][NextOrigin]_vars

\* C5 as stated: a request that carries no Origin header is never answered
\* 403.
C5_NoOriginNever403 ==
  \A r \in DOMAIN resp : resp[r].status = 403 => resp[r].hasOrigin

\* an origin string reduced to scheme, host and port
C6_Reduced(o) ==
  [o EXCEPT !.path = "", !.port = IF o.port = DefaultPort(o.scheme) THEN 0 ELSE o.port]
C6_Listed(o, list) ==
  list = <<>> \/ (o.ok /\ \E i \in 1..Len(list) : list[i] = C6_Reduced(o))

\* C6: a request with an Origin header that has passed lookup and key check
\* passes the origin step exactly when the bot's allowedOrigins is empty or
\* contains that origin reduced to scheme+host+port; otherwise it is answered
\* 403 with Access-Control-Allow-Origin absent or "null", having changed no
\* counter and made no fetch, embedding or inference call.
C6_OriginStep ==
  [][\A r \in DOMAIN chat :
       (chat[r].pc = "origin" /\ chat'[r].pc # "origin" /\ chat[r].hasOrigin) =>
         LET passed == chat'[r].pc = "rate"
             o == IF passed THEN chat'[r].origin ELSE resp'[r].reqOrigin
             list == StoredCfg(chat[r].botId).allowedOrigins
         IN /\ o # EmptyStr
            /\ passed <=> C6_Listed(o, list)
            /\ ~passed =>
                 /\ ~InFlight(r)'
                 /\ resp'[r].status = 403
                 /\ resp'[r].acao \in {EmptyStr, NullStr}
                 /\ KB_CACHE' = KB_CACHE
                 /\ calls'[r] = NoCalls]_vars

\* C6 witness: an Origin header with an explicit default port and a path has
\* passed the origin step of the bot with an allowlist while a request from
\* a foreign origin was answered 403.
C6_Witness ==
  \E r1, r2 \in DOMAIN chat :
    /\ chat[r1].pc = "rate" /\ chat[r1].hasOrigin /\ chat[r1].origin = SitePage
    /\ chat[r1].cfg.allowedOrigins # <<>>
    /\ resp[r2].status = 403 /\ resp[r2].hasOrigin /\ resp[r2].reqOrigin = EvilOrigin

(***************************************************************************)
(* SpecAdmin: /admin/upsert requests, one at a time, starting from the     *)
(* empty store.  The body under test is fixed at the start; it is sent     *)
(* before, after and in between other bodies, with good and bad tokens.    *)
(***************************************************************************)
AdminUpserts == 3

\* the values a numeric field of a JSON body may hold
NumericInputs ==
  {JUndef, J("num", -500), J("num", 5), J("num", 645), J("num", 2000000000),
   J("str", 70), J("str", -30), J("str", 0), J("badstr", 0), J("nan", 0), J("other", 0)}

\* a body for bot "a" whose numeric fields hold x and y
ProbeBody(x, y, withBudget) ==
  [BaseBody("a") EXCEPT
     !.maxTokens = x, !.ragMaxUrlsPerRequest = y, !.ragTopKChunks = x, !.ragChunkChars = y,
     !.ragCacheTtlSeconds = x, !.maxTurns = y, !.maxCharsPerMessage = x,
     !.rateLimit = [limit |-> x, windowSeconds |-> y],
     !.dailyBudget = [given |-> withBudget, maxRequestsPerDay |-> x, maxTokensPerDay |-> y],
     !.allowedOrigins = IF withBudget THEN ListOf(<<SitePage, SiteOrigin, Garbage>>) ELSE NoList]

ProbeBodies == {ProbeBody(x, y, w) : x \in NumericInputs, y \in NumericInputs, w \in BOOLEAN}

InitAdmin ==
  \E b \in ProbeBodies : InitWith({1}, {"tok"}, [NoProbe EXCEPT !.body = b])
NextAdmin ==
  \E a \in AdminSlots :
    AdminNext(a, AdminTokens, {probe.body, BodyA1, BaseBody("index"), NotAnObject}, AdminUpserts)
SpecAdmin == InitAdmin /\ [][NextAdmin]_vars

C7_InRange(c) ==
  /\ c.maxTokens \in 64..1024
  /\ c.ragMaxUrlsPerRequest \in 0..5
  /\ c.ragTopKChunks \in 1..8
  /\ c.ragChunkChars \in 300..2000
  /\ c.ragCacheTtlSeconds \in 60..604800
  /\ c.maxTurns \in 4..30
  /\ c.maxCharsPerMessage \in 200..8000
  /\ c.rateLimit.limit \in 1..120
  /\ c.rateLimit.windowSeconds \in 10..3600
  /\ c.dailyBudget.set =>
       /\ c.dailyBudget.maxRequestsPerDay \in 0..100000
       /\ c.dailyBudget.maxTokensPerDay \in 0..50000000

\* C7: in every reachable state of the config store, every configuration
\* record has each numeric field inside its global range, whatever the
\* values of the bodies sent to /admin/upsert and whatever record was stored
\* for the bot before.
C7_StoredInRange ==
  /\ \A k \in DOMAIN BOT_CONFIG :
       BOT_CONFIG[k].kind = "cfg" => C7_InRange(BOT_CONFIG[k].cfg)
  /\ \A a \in DOMAIN admResp : admResp[a].status = 200 => C7_InRange(admResp[a].cfg)

\* C7 witness: a body with a number far above the range in one group of
\* fields and a negative numeric string in the other has been stored over an
\* earlier record of the bot.
C7_Witness ==
  /\ lastUp.valid /\ lastUp.body = probe.body /\ nWrites >= 3
  /\ probe.body.maxTokens = J("num", 2000000000)
  /\ probe.body.maxTurns = J("str", -30)
  /\ lastUp.stored.kind = "cfg"
  /\ lastUp.stored.cfg.maxTokens = 1024
  /\ lastUp.stored.cfg.maxTurns = 4

\* C8: an upsert that repeats the body of the upsert completed just before
\* it, with no write to the store in between, returns the same cfg, leaves
\* under the bot's key the value the first call left there, and leaves the
\* bot index as the first call left it.
C8_UpsertTwice ==
  [][\A a \in DOMAIN adm :
       (/\ lastUp' # lastUp
        /\ lastUp.valid
        /\ adm[a].pc \in {"idxget", "idxput"} /\ adm'[a].pc = "idle"
        /\ adm[a].body = lastUp.body
        /\ adm[a].at = lastUp.at
        /\ nWrites' = adm[a].at + adm[a].own + (IF adm[a].pc = "idxput" THEN 1 ELSE 0))
       => /\ admResp'[a].status = 200
          /\ admResp'[a].cfg = lastUp.cfg
          /\ KvGet(BOT_CONFIG', CfgKey(lastUp.body.botId)) = lastUp.stored
          /\ KvGet(BOT_CONFIG', IndexKey) = lastUp.index]_vars

\* C8 witness: the body under test, with out-of-range values, has been
\* stored twice in a row over an earlier record of the bot.
C8_Witness ==
  /\ lastUp.valid /\ lastUp.body = probe.body
  /\ nUpserts = 3 /\ nWrites = 4
  /\ probe.body.maxTokens = J("num", -500)
  /\ admResp[1].status = 200 /\ admResp[1].cfg = lastUp.cfg

(***************************************************************************)
(* SpecAssemble: one history, fixed at the start, is sent to a bot with    *)
(* long notes and the largest turn limits and to a bot that keeps only     *)
(* four short turns.                                                       *)
(***************************************************************************)
MaxHistory == 7
AssembleChats == 1

\* bot "a" with 40,000 characters of notes, 30 turns of 8000 characters
BodyLong ==
  [BaseBody("a") EXCEPT
     !.botKey = "k1",
     !.knowledge = 40000,
     !.maxTurns = J("num", 300),
     !.maxCharsPerMessage = J("num", 999990),
     !.rateLimit = [limit |-> J("num", 1200), windowSeconds |-> JUndef],
     !.actions = [given |-> TRUE, actionsEnabled |-> TRUE, webhookUrl |-> HookUrl,
                  hasTypes |-> FALSE, types |-> {}]]

\* bot "a" with no notes, 4 turns of 200 characters
BodyShort ==
  [BodyLong EXCEPT !.knowledge = -1, !.maxTurns = J("num", 10),
                   !.maxCharsPerMessage = J("str", 0)]

\* the i-th message of a history, of one of three kinds
TurnOf(kind, i) ==
  IF kind = "user" THEN Msg("user", 9000, i, {"hello"})
  ELSE IF kind = "assistant" THEN Msg("assistant", 5000, i, {})
  ELSE Msg("system", 50, i, {})

Histories ==
  UNION {{[i \in 1..n |-> TurnOf(f[i], i)] : f \in [1..n -> {"user", "assistant", "system"}]} :
           n \in 1..MaxHistory}

InitAssemble ==
  \E h \in Histories :
    InitServing({1}, {Configured(<<BodyLong>>), Configured(<<BodyShort>>)},
                [NoProbe EXCEPT !.msgs = h])
NextAssemble ==
  ChatNext(1, [PlainInputs EXCEPT !.msgs = {probe.msgs}], AssembleChats)
SpecAssemble == InitAssemble /\ [][NextAssemble]_vars

RECURSIVE C9_Total(_)
C9_Total(ms) == IF ms = <<>> THEN 0 ELSE ms[1].len + C9_Total(Tail(ms))
\* the system text before truncation
C9_SystemLen(c) == buildSystemPromptLen(c.cfg) + knowledgeLen(c.cfg) + c.ragLen

\* C9: the message list passed to the inference service has at most 75,000
\* characters in total; its first element is the only system message, it
\* has at most 30,000 characters and is the system text as truncated to that
\* ceiling, untouched by the total-size trimming; the turns after it are a
\* suffix of the sanitized turns, in their order.
C9_AssembledInput ==
  \A r \in DOMAIN chat :
    chat[r].pc \in {"ai", "charge", "act", "webhook"} =>
      LET input == chat[r].input
          trimmed == chat[r].trimmed
      IN /\ input # <<>>
         /\ C9_Total(input) <= 75000
         /\ input[1].role = "system"
         /\ input[1].len <= 30000
         /\ input[1].len = Min2(C9_SystemLen(chat[r]), 30000)
         /\ \A i \in 2..Len(input) : input[i].role \in {"user", "assistant"}
         /\ \E k \in 0..Len(trimmed) : Tail(input) = SubSeq(trimmed, k + 1, Len(trimmed))

\* C9 witness: the system text was cut to 30,000 characters, the history
\* lost messages in sanitizing, and the oldest sanitized turns were dropped
\* to meet the total ceiling.
C9_Witness ==
  \E r \in DOMAIN chat :
    /\ chat[r].pc = "ai"
    /\ C9_SystemLen(chat[r]) > 30000 /\ chat[r].input[1].len = 30000
    /\ Len(chat[r].trimmed) < Len(probe.msgs)
    /\ Len(chat[r].input) - 1 < Len(chat[r].trimmed)
    /\ Len(chat[r].input) > 2

(***************************************************************************)
(* SpecReply: every kind of inference result, for a bot whose actions are  *)
(* switched off, a bot without an actions object and a bot with actions.   *)
(***************************************************************************)
ReplyChats == 2

ReplyInputs ==
  [PlainInputs EXCEPT
     !.bodies = {ChatBody("a", TRUE, TRUE, FALSE), ChatBody("b", TRUE, TRUE, FALSE)},
     !.keys = {<<"", "">>},
     !.msgs = {Hello, PriceTalk},
     !.aiOk = BOOLEAN,
     !.ais = AllInputs.ais,
     !.hooks = AllInputs.hooks]

\* bot "b" with every action kind allowed and a webhook
BodyHook ==
  [BaseBody("b") EXCEPT
     !.actions = [given |-> TRUE, actionsEnabled |-> TRUE, webhookUrl |-> HookUrl,
                  hasTypes |-> FALSE, types |-> {}]]

InitReply ==
  InitServing({1}, {Configured(<<BodyA2, BodyB>>), Configured(<<BaseBody("a"), BodyHook>>)},
              NoProbe)
NextReply == ChatNext(1, ReplyInputs, ReplyChats)
SpecReply == InitReply /\ [][NextReply]_vars

\* C10: a 200 response of a bot whose action policy is switched off or
\* absent has no action and came without a webhook request, whatever the
\* inference result was; when the result is a JSON object with a message,
\* whatever action it names, the response message is that message, trimmed
\* (the fallback apology when the message is blank).
C10_NoActionWhenDisabled ==
  \A r \in DOMAIN resp :
    (resp[r].status = 200 /\ ~StoredCfg(resp[r].botId).actions.actionsEnabled) =>
      /\ resp[r].action = NoAction
      /\ calls[r].webhook = 0
      /\ "webhook" \notin {hist[r][i] : i \in 1..Len(hist[r])}
      /\ (/\ resp[r].ai.shape \in {"response", "result.response", "output_text"}
          /\ resp[r].ai.text.json = "obj"
          /\ resp[r].ai.text.msg # "")
         => resp[r].message = (IF TrimStr(resp[r].ai.text.msg) # ""
                               THEN TrimStr(resp[r].ai.text.msg) ELSE Fallback)

\* C10 witness: a bot with actions switched off and a webhook URL answered an
\* envelope that asks for a lead with the envelope's message alone.
C10_Witness ==
  \E r \in DOMAIN resp :
    /\ resp[r].status = 200
    /\ StoredCfg(resp[r].botId).actions.set
    /\ ~StoredCfg(resp[r].botId).actions.actionsEnabled
    /\ StoredCfg(resp[r].botId).actions.webhookUrl # EmptyStr
    /\ resp[r].ai.text = Envelope("create_lead")
    /\ resp[r].message = "Hi there"
    /\ resp[r].action = NoAction

\* the raw results C11 lists: no text, blanks only, a result shape that is
\* not read, an action envelope without a message
C11_NoText(ai) ==
  \/ ai.shape \notin {"response", "result.response", "output_text"}
  \/ TrimStr(ai.text.raw) = ""
  \/ ai.text.json = "obj" /\ ai.text.hasAction /\ TrimStr(ai.text.msg) = ""

\* C11 as stated: every 200 response has a message that is non-empty after
\* trimming, whatever the inference result was; when the result has no
\* text, only blanks, a shape that is not read, or is an action envelope
\* without a message, the message is the fixed fallback apology.
C11_FallbackWhenNoMessage ==
  \A r \in DOMAIN resp :
    resp[r].status = 200 =>
      /\ TrimStr(resp[r].message) # ""
      /\ C11_NoText(resp[r].ai) => resp[r].message = Fallback

\* C15 as stated: while the webhook request of a chat request is outstanding
\* the 200 response has already been produced, and the response is the one
\* fixed before the webhook settled, whether it succeeds, answers non-2xx or
\* fails on the network.
C15_ResponseIndependentOfWebhook ==
  [][\A r \in DOMAIN chat :
       /\ chat'[r].pc = "webhook" => resp'[r].status = 200
       /\ (chat[r].pc = "webhook" /\ chat'[r].pc = "idle") =>
            /\ resp'[r].status = 200
            /\ resp'[r].message = chat[r].reply.message
            /\ resp'[r].action.type = chat[r].reply.action]_vars

(***************************************************************************)
(* SpecAuth: requests to the four admin routes with the right token, a     *)
(* wrong one and none, for a worker with and without an admin token.       *)
(***************************************************************************)
AuthRequests == 3

\* the worker with the given admin slots, admin tokens and stores
InitConsole(aslots, tokens, stores) ==
  /\ ADMIN_TOKEN \in tokens
  /\ BOT_CONFIG \in stores
  /\ adm = [a \in aslots |-> IdleAdm]
  /\ admResp = [a \in aslots |-> NoAdmResp]
  /\ nUpserts = 0
  /\ nWrites = 0
  /\ lastUp = NoLastUp
  /\ tick = 1
  /\ KB_CACHE = <<>>
  /\ chat = [r \in {1} |-> IdleChat]
  /\ resp = [r \in {1} |-> NoResp]
  /\ hist = [r \in {1} |-> <<>>]
  /\ calls = [r \in {1} |-> NoCalls]
  /\ nChats = 0
  /\ rlLog = <<>>
  /\ budLog = <<>>
  /\ probe = NoProbe

KbFrame == UNCHANGED <<tick, chat, resp, hist, calls, nChats, rlLog, budLog, probe>>

\* one step of a request to /admin/get, /admin/list or /admin/kb/refresh
ReadNext(a, tokens, bodies, pages, max) ==
  \/ \E token \in tokens, body \in bodies :
       nUpserts < max /\ AdminGet(a, token, body) /\ AdminFrame
  \/ \E token \in tokens : nUpserts < max /\ AdminList(a, token) /\ AdminFrame
  \/ \E token \in tokens, body \in bodies :
       nUpserts < max /\ AdminKbBegin(a, token, body) /\ AdminFrame
  \/ \E page \in pages : AdminKbFetch(a, page) /\ KbFrame

AuthTokens == {"", "bad", "tok"}
AuthBodies == {BodyA1, BaseBody("zz"), NotAnObject}

InitAuth == InitConsole({1}, {"", "tok"}, {<<>>, Configured(<<BodyA1, BodyB>>)})
NextAuth ==
  \/ AdminNext(1, AuthTokens, AuthBodies, AuthRequests)
  \/ ReadNext(1, AuthTokens, AuthBodies, {-1, 500}, AuthRequests)
SpecAuth == InitAuth /\ [][NextAuth]_vars

\* the request came without the configured admin token
C12_Unauthorized(token) == ADMIN_TOKEN = "" \/ token = "" \/ token # ADMIN_TOKEN

\* C12: a request to /admin/upsert, /admin/get, /admin/list or
\* /admin/kb/refresh whose bearer token is missing or is not the configured
\* admin token, and every admin request made while no admin token is
\* configured, ends in the step that checks the token, with 401 (500 when no
\* token is configured), having read and written neither store and fetched
\* nothing; no request in flight past that step came without the token.
C12_RejectedBeforeAnyAccess ==
  [][\A a \in DOMAIN adm :
       /\ adm'[a].pc # "idle" => ~C12_Unauthorized(adm'[a].token)
       /\ (admResp'[a].status # 0 /\ C12_Unauthorized(admResp'[a].token)) =>
            /\ admResp'[a].status = (IF ADMIN_TOKEN = "" THEN 500 ELSE 401)
            /\ admResp'[a].reads = 0 /\ admResp'[a].writes = 0 /\ admResp'[a].fetches = 0
            /\ admResp'[a].cfg = NoExisting /\ admResp'[a].ids = <<>>
       /\ (adm[a].pc = "idle" /\ adm'[a].pc = "idle" /\ nUpserts' # nUpserts
           /\ C12_Unauthorized(admResp'[a].token)) =>
            BOT_CONFIG' = BOT_CONFIG /\ KB_CACHE' = KB_CACHE]_vars

\* C12 witness: after an upsert and a refresh made with the admin token, a
\* refresh with a wrong token was answered 401.
C12_Witness ==
  /\ nWrites >= 1 /\ KB_CACHE # <<>>
  /\ admResp[1].status = 401 /\ admResp[1].route = "kb" /\ admResp[1].token = "bad"

(***************************************************************************)
(* SpecKey: requests with every combination of header key and body key,    *)
(* for a bot with a key, the same bot with an empty key and a bot without. *)
(***************************************************************************)
KeyChats == 2

KeyInputs ==
  [PlainInputs EXCEPT
     !.bodies = {ChatBody("a", TRUE, TRUE, FALSE), ChatBody("b", TRUE, TRUE, FALSE)},
     !.keys = AllInputs.keys]

InitKey == InitServing({1}, {Configured(<<BodyA1, BodyB>>), Configured(<<BodyA2, BodyB>>)}, NoProbe)
NextKey == ChatNext(1, KeyInputs, KeyChats)
SpecKey == InitKey /\ [][NextKey]_vars

\* C13 as stated: a request for a bot with a non-empty botKey passes the key
\* step exactly when the x-bot-key header or the body's botKey field holds
\* that key; otherwise it is answered 401 right after lookup and key step,
\* having changed no counter; a request for a bot without a botKey always
\* passes the key step.
C13_KeyStep ==
  [][\A r \in DOMAIN chat :
       (chat[r].pc = "key" /\ chat'[r].pc # "key") =>
         LET key == StoredCfg(chat[r].botId).botKey
             passed == chat'[r].pc = "origin"
             ks == IF passed THEN chat'[r].keys ELSE resp'[r].keys
         IN IF key \notin {Undefined, ""}
            THEN /\ passed <=> (ks[1] = key \/ ks[2] = key)
                 /\ ~passed =>
                      /\ resp'[r].status = 401 /\ ~InFlight(r)'
                      /\ hist'[r] = <<"lookup", "key">>
                      /\ KB_CACHE' = KB_CACHE /\ calls'[r] = NoCalls
            ELSE passed]_vars

(***************************************************************************)
(* SpecIndex: two admin clients upsert bots and list them, their requests  *)
(* interleaved at every await.                                             *)
(***************************************************************************)
IndexRequests == 3

IndexBodies == {BaseBody("a"), BaseBody("b"), BodyB}

InitIndex == InitConsole({1, 2}, {"tok"}, {<<>>})
NextIndex ==
  \E a \in {1, 2} :
    \/ AdminNext(a, {"tok"}, IndexBodies, IndexRequests)
    \/ nUpserts < IndexRequests /\ AdminList(a, "tok") /\ AdminFrame
SpecIndex == InitIndex /\ [][NextIndex]_vars

\* the bot identifiers of the modelled bodies that have a configuration
\* record in the store
C16_Recorded(store) ==
  {b.botId : b \in {x \in IndexBodies : KvGet(store, CfgKey(x.botId)).kind = "cfg"}}

\* C16 as stated: /admin/list, answered while no upsert is in flight,
\* returns exactly the identifiers of the bots that have a stored
\* configuration record, however the upserts before it were interleaved.
C16_ListComplete ==
  [][\A a \in DOMAIN adm :
       (/\ admResp'[a] # admResp[a]
        /\ admResp'[a].route = "list" /\ admResp'[a].status = 200
        /\ \A b \in DOMAIN adm : adm[b].pc = "idle")
       => {admResp'[a].ids[i] : i \in 1..Len(admResp'[a].ids)} = C16_Recorded(BOT_CONFIG)]_vars

(***************************************************************************)
(* SpecSelect: selectRelevantUrls on a question and a list of three        *)
(* knowledge URLs fixed at the start.                                      *)
(***************************************************************************)
SelectWords == 3

ContactUrl == Str(TRUE, "https", "site.example", 0, "/contact")
AboutUrl == Str(TRUE, "https", "docs.example", 0, "/about")
DocsUrl == Str(TRUE, "https", "docs.example", 0, "/docs")
PricingHostUrl == Str(TRUE, "https", "pricing.example", 0, "/about")
UrlPool == {PricingUrl, ContactUrl, AboutUrl, DocsUrl, PricingHostUrl}
WordPool == {"what", "is", "the", "price", "prices", "cost", "docs", "example",
             "contact", "contacts", "about"}

\* the questions of at most SelectWords words that contain "price"
Questions ==
  {q \in SUBSET WordPool : Cardinality(q) <= SelectWords /\ QIncludes(q, "price")}
\* the lists of three different URLs of which exactly one has "pricing" in
\* its path
UrlLists ==
  {l \in [1..3 -> UrlPool] :
     /\ \A i, j \in 1..3 : i # j => l[i] # l[j]
     /\ Cardinality({i \in 1..3 : Has(l[i].path, "pricing")}) = 1}

InitSelect ==
  \E q \in Questions, l \in UrlLists :
    InitServing({1}, {<<>>}, [NoProbe EXCEPT !.q = q, !.urls = l])
\* chosen = selectRelevantUrls(question, urls, maxUrls)
SelectUrls(max) ==
  /\ probe.max = 0
  /\ probe' = [probe EXCEPT !.max = max,
                             !.chosen = selectRelevantUrls(probe.q, probe.urls, max)]
  /\ UNCHANGED <<admVars, chatVars>>
NextSelect == \E max \in 1..GLOBAL_RAG_MAX_URLS : SelectUrls(max)
SpecSelect == InitSelect /\ [][NextSelect]_vars

\* the URL of the list whose path contains "pricing"
C18_PricingOf(l) == l[CHOOSE i \in 1..3 : Has(l[i].path, "pricing")]
\* no word of three or more letters of q occurs in u, and u does not
\* contain "pricing"
C18_Unmatched(q, u) ==
  /\ \A t \in q : t \in ShortWords \/ ~PIncludes(u, t)
  /\ ~PIncludes(u, "pricing")
C18_NoOtherBoost(q) ==
  \A k \in {"contact", "quote", "privacy", "terms"} : ~QIncludes(q, k)

HangChats == 2

\* bot "a" in embed mode
BodyEmbed == [BodyA1 EXCEPT !.ragMode = "embed"]

HangInputs == [PlainInputs EXCEPT !.aiOk = BOOLEAN, !.pages = {<<-1>>, <<500>>}]

InitHang == InitServing({1}, {Configured(<<BodyA1>>), Configured(<<BodyEmbed>>)}, NoProbe)
NextHang ==
  \/ ChatNext(1, HangInputs, HangChats)
  \/ \E call \in {"fetch", "embed", "ai", "webhook"} : ChatHang(1, call) /\ ChatFrame
SpecHang == InitHang /\ [][NextHang]_vars /\ WF_vars(NextHang)

\* C19 as stated: every chat request eventually returns a response, also
\* when one of its outbound calls never answers.
C19_EveryRequestAnswered ==
  (chat[1].pc # "idle") ~> (chat[1].pc = "idle" /\ resp[1].status # 0)

(***************************************************************************)
(* SpecBurst: the requests of one client address for a bot with a rate     *)
(* limit of 2 and a daily ceiling of 1, handled two at a time and          *)
(* interleaved at every await.                                             *)
(***************************************************************************)
BurstChats == 3

BurstInputs == [PlainInputs EXCEPT !.aiOk = BOOLEAN]

InitBurst == InitServing(Slots, {Configured(<<BodyA1>>)}, NoProbe)
NextBurst == \E r \in Slots : ChatNext(r, BurstInputs, BurstChats)
SpecBurst == InitBurst /\ [][NextBurst]_vars

\* C20: the counters are read, compared and written back without
\* atomicity, so the limits hold only up to the reads that overlap: in a
\* window of a (bot, address) at most limit + k requests pass the rate-limit
\* step, k the number of rate-limit steps run while another request held a
\* value of the same counter it had not written back yet, and on a UTC day
\* at most maxRequestsPerDay + k admitted calls succeed, k the number of
\* budget steps run between the budget check and the increment of another
\* request of the bot; the stored counters themselves never pass the limits.
C20_ApproximateUnderConcurrency ==
  /\ \A lk \in DOMAIN rlLog :
       rlLog[lk].passed <= StoredCfg(lk[1]).rateLimit.limit + rlLog[lk].overlap
  /\ \A lk \in DOMAIN budLog :
       CeilingOf(lk[1]) > 0 => budLog[lk].counted <= CeilingOf(lk[1]) + budLog[lk].overlap
  /\ \A k \in DOMAIN KB_CACHE :
       /\ KB_CACHE[k].kind = "count" => KB_CACHE[k].n <= StoredCfg("a").rateLimit.limit
       /\ KB_CACHE[k].kind = "budget" => KB_CACHE[k].n <= CeilingOf("a")

\* C20 witness: requests that interleaved their reads and writes: more than
\* `limit` of them passed the rate-limit step of one window, and more than
\* maxRequestsPerDay calls succeeded on one day.
C20_Witness ==
  /\ \E lk \in DOMAIN rlLog :
       rlLog[lk].overlap > 0 /\ rlLog[lk].passed > StoredCfg(lk[1]).rateLimit.limit
  /\ \E lk \in DOMAIN budLog :
       /\ budLog[lk].overlap > 0 /\ CeilingOf(lk[1]) > 0
       /\ budLog[lk].counted > CeilingOf(lk[1])
       /\ budLog[lk].succeeded > CeilingOf(lk[1])

(***************************************************************************)
(* SpecEmbed: the requests of one client for a bot in embed mode, with     *)
(* pages that fail, are too short to chunk or yield chunks, and an         *)
(* embedding service that answers or not.                                  *)
(***************************************************************************)
EmbedChats == 2

EmbedInputs ==
  [PlainInputs EXCEPT !.pages = {<<-1>>, <<50>>, <<500>>, <<3000>>}, !.works = BOOLEAN,
                      !.aiOk = BOOLEAN]

InitEmbed == InitServing({1}, {Configured(<<BodyEmbed>>)}, NoProbe)
NextEmbed == ChatNext(1, EmbedInputs, EmbedChats)
SpecEmbed == InitEmbed /\ [][NextEmbed]_vars

\* C21 as stated: in embed mode, a request for which a page text was obtained
\* and the embedding service gave no vector, for the question or for any of
\* the chunks cut from the pages, goes on to the inference call with the
\* raw-excerpt block, which is not empty.
C21_DegradesToExcerpts ==
  \A r \in DOMAIN chat :
    (/\ chat[r].cfg.ragMode = "embed" /\ chat[r].rag.kind # ""
     /\ chat[r].rag.texts # <<>>
     /\ (~chat[r].rag.qVec \/ (chat[r].rag.chunks > 0 /\ chat[r].rag.got = 0)))
    => /\ chat[r].pc \in {"assemble", "ai", "charge", "act", "webhook"}
       /\ chat[r].rag.kind = "fallback"
       /\ chat[r].ragLen > 0

(***************************************************************************)
(* SpecPatch: /admin/upsert requests, one at a time, with bodies that      *)
(* leave fields and sub-fields out, over stored records of bot "a".        *)
(***************************************************************************)
PatchUpserts == 3

\* bodies for bot "a" that give one field, or one sub-field of an object
PatchBodies ==
  {BaseBody("a"),
   [BaseBody("a") EXCEPT !.tone = "warm", !.maxTokens = J("num", 2000)],
   [BaseBody("a") EXCEPT !.knowledgeUrls = ListOf(<<HookUrl>>), !.ragMode = "simple"],
   [BaseBody("a") EXCEPT !.rateLimit = [limit |-> J("num", 50), windowSeconds |-> JUndef]],
   [BaseBody("a") EXCEPT !.rateLimit = [limit |-> JUndef, windowSeconds |-> J("num", 300)]],
   [BaseBody("a") EXCEPT !.dailyBudget = [given |-> TRUE, maxRequestsPerDay |-> J("num", 70),
                                          maxTokensPerDay |-> JUndef]],
   [BaseBody("a") EXCEPT !.dailyBudget = [given |-> TRUE, maxRequestsPerDay |-> JUndef,
                                          maxTokensPerDay |-> J("num", 9000)]],
   [BaseBody("a") EXCEPT !.actions = [given |-> TRUE, actionsEnabled |-> TRUE,
                                      webhookUrl |-> EmptyStr, hasTypes |-> FALSE, types |-> {}]],
   [BaseBody("a") EXCEPT !.actions = [given |-> TRUE, actionsEnabled |-> TRUE,
                                      webhookUrl |-> EmptyStr, hasTypes |-> TRUE,
                                      types |-> {"open_contact"}]]}

InitPatch == InitConsole({1}, {"tok"}, {<<>>, Configured(<<BodyA1>>), Configured(<<BodyA2>>)})
NextPatch == AdminNext(1, {"tok"}, PatchBodies, PatchUpserts)
SpecPatch == InitPatch /\ [][NextPatch]_vars

\* the fields of body b other than the action policy that b leaves out have
\* in record new the value they have in record old
C22_KeptOutsideActions(b, old, new) ==
  /\ b.tone = Undefined => new.tone = old.tone
  /\ b.botKey = Undefined => new.botKey = old.botKey
  /\ b.knowledge < 0 => new.knowledge = old.knowledge
  /\ b.maxTokens = JUndef => new.maxTokens = old.maxTokens
  /\ ~b.allowedOrigins.given => new.allowedOrigins = old.allowedOrigins
  /\ ~b.knowledgeUrls.given => new.knowledgeUrls = old.knowledgeUrls
  /\ b.ragEnabled = Undefined => new.ragEnabled = old.ragEnabled
  /\ b.ragMode = Undefined => new.ragMode = old.ragMode
  /\ b.ragMaxUrlsPerRequest = JUndef => new.ragMaxUrlsPerRequest = old.ragMaxUrlsPerRequest
  /\ b.ragTopKChunks = JUndef => new.ragTopKChunks = old.ragTopKChunks
  /\ b.ragChunkChars = JUndef => new.ragChunkChars = old.ragChunkChars
  /\ b.ragCacheTtlSeconds = JUndef => new.ragCacheTtlSeconds = old.ragCacheTtlSeconds
  /\ b.maxTurns = JUndef => new.maxTurns = old.maxTurns
  /\ b.maxCharsPerMessage = JUndef => new.maxCharsPerMessage = old.maxCharsPerMessage
  /\ b.rateLimit.limit = JUndef => new.rateLimit.limit = old.rateLimit.limit
  /\ b.rateLimit.windowSeconds = JUndef => new.rateLimit.windowSeconds = old.rateLimit.windowSeconds
  /\ ~b.dailyBudget.given => new.dailyBudget = old.dailyBudget
  /\ (b.dailyBudget.given /\ old.dailyBudget.set) =>
       /\ b.dailyBudget.maxRequestsPerDay = JUndef =>
            new.dailyBudget.maxRequestsPerDay = old.dailyBudget.maxRequestsPerDay
       /\ b.dailyBudget.maxTokensPerDay = JUndef =>
            new.dailyBudget.maxTokensPerDay = old.dailyBudget.maxTokensPerDay
  /\ ~b.actions.given => new.actions = old.actions

\* the same for the action policy given with its webhook URL or its allowed
\* kinds left out
C22_KeptInActions(b, old, new) ==
  b.actions.given =>
    /\ b.actions.webhookUrl = EmptyStr => new.actions.webhookUrl = old.actions.webhookUrl
    /\ ~b.actions.hasTypes => new.actions.allowedActionTypes = old.actions.allowedActionTypes

\* C22 as stated: the put of an /admin/upsert leaves every field that its body
\* leaves out as it was stored for the bot, each sub-field of rateLimit, of
\* dailyBudget and of the action policy on its own.
C22_OmittedFieldsUnchanged ==
  [][\A a \in DOMAIN adm :
       LET old == KvGet(BOT_CONFIG, CfgKey(adm[a].body.botId))
           new == KvGet(BOT_CONFIG', CfgKey(adm[a].body.botId))
       IN (adm[a].pc = "put" /\ adm'[a].pc = "idxget" /\ old.kind = "cfg")
          => /\ new.kind = "cfg"
             /\ C22_KeptOutsideActions(adm[a].body, old.cfg, new.cfg)
             /\ C22_KeptInActions(adm[a].body, old.cfg, new.cfg)]_vars

(***************************************************************************)
(* SpecHook: every kind of inference result for bots with actions on and   *)
(* off, with and without a webhook URL, with and without an allowlist.     *)
(***************************************************************************)
HookChats == 2

\* bot "a": actions on, a webhook, leads allowed and webhook actions not
BodyLead ==
  [BaseBody("a") EXCEPT
     !.actions = [given |-> TRUE, actionsEnabled |-> TRUE, webhookUrl |-> HookUrl,
                  hasTypes |-> TRUE, types |-> {"create_lead", "none"}]]
\* bot "b": actions on, every kind allowed, no webhook URL
BodyNoUrl ==
  [BaseBody("b") EXCEPT
     !.actions = [given |-> TRUE, actionsEnabled |-> TRUE, webhookUrl |-> EmptyStr,
                  hasTypes |-> FALSE, types |-> {}]]

HookInputs == [ReplyInputs EXCEPT !.msgs = {Hello}]

InitHook ==
  InitServing({1}, {Configured(<<BodyLead, BodyNoUrl>>), Configured(<<BodyA2, BodyHook>>),
                    Configured(<<BaseBody("a"), BodyB>>)}, NoProbe)
NextHook == ChatNext(1, HookInputs, HookChats)
SpecHook == InitHook /\ [][NextHook]_vars

\* the action kind the model returned: the type of the action object of a
\* JSON envelope found in one of the result shapes read, "" when there is
\* no envelope, no action object or a type outside the four kinds
C23_Returned(ai) ==
  IF /\ ai.shape \in {"response", "result.response", "output_text"}
     /\ ai.text.json = "obj" /\ ai.text.hasAction /\ ai.text.atype \in ActionTypes
  THEN ai.text.atype ELSE ""

\* the kinds a bot allows: its allowlist, every kind when it has none
C23_Allowed(cfg) ==
  IF cfg.actions.allowedActionTypes # {} THEN cfg.actions.allowedActionTypes ELSE ActionTypes

\* C23: a request sends at most one webhook POST; a finished request has sent
\* one exactly when its inference call succeeded, the bot's actions are
\* enabled, it has a webhook URL, and the kind the model returned is
\* create_lead or webhook and within the bot's allowed kinds; a request in
\* flight has sent one only under these conditions.  For a bot with actions
\* enabled a returned kind outside its allowed kinds is answered as type
\* none; open_contact and none send nothing.
C23_WebhookExactlyWhenDue ==
  \A r \in DOMAIN chat :
    LET done == chat[r].pc = "idle"
        cfg == StoredCfg(IF done THEN resp[r].botId ELSE chat[r].botId)
        kind == C23_Returned(IF done THEN resp[r].ai ELSE chat[r].ai)
        due == /\ cfg.actions.actionsEnabled
               /\ cfg.actions.webhookUrl # EmptyStr
               /\ kind \in {"create_lead", "webhook"}
               /\ kind \in C23_Allowed(cfg)
    IN /\ calls[r].webhook <= 1
       /\ calls[r].webhook = 1 => due /\ calls[r].ai = 1
       /\ (done /\ resp[r].status = 200) =>
            /\ calls[r].webhook = 1 <=> due
            /\ (cfg.actions.actionsEnabled /\ kind # "" /\ kind \notin C23_Allowed(cfg))
               => resp[r].action.type = "none" /\ calls[r].webhook = 0
            /\ kind \in {"open_contact", "none"} => calls[r].webhook = 0
       /\ (done /\ resp[r].status # 200) => calls[r].webhook = 0

\* C23 witness: a bot with a webhook URL that allows leads but not webhook
\* actions has answered a webhook envelope, in the second request of the
\* run, with type none and without a POST.
C23_Witness ==
  /\ StoredCfg("a").actions.allowedActionTypes = {"create_lead", "none"}
  /\ chat[1].pc = "idle" /\ resp[1].status = 200 /\ resp[1].botId = "a"
  /\ C23_Returned(resp[1].ai) = "webhook"
  /\ resp[1].action.type = "none" /\ calls[1].webhook = 0
  /\ nChats = 2

\* C24 as stated: when the inference result is a JSON envelope whose action
\* type is none of the four kinds, a bot with actions enabled answers with
\* the envelope's message and an action of type none.
C24_UnknownTypeIsNone ==
  \A r \in DOMAIN resp :
    (/\ resp[r].status = 200
     /\ StoredCfg(resp[r].botId).actions.actionsEnabled
     /\ resp[r].ai.shape \in {"response", "result.response", "output_text"}
     /\ resp[r].ai.text.json = "obj" /\ resp[r].ai.text.hasAction
     /\ resp[r].ai.text.atype \notin ActionTypes)
    => /\ resp[r].action.type = "none"
       /\ TrimStr(resp[r].ai.text.msg) # "" => resp[r].message = TrimStr(resp[r].ai.text.msg)

(***************************************************************************)
(* SpecIsolate: requests, one at a time and at one instant, for two bots   *)
(* whose ids are "a" and "a:1", from IPv4 and IPv6 client addresses.       *)
(***************************************************************************)
IsolateChats == 3

\* a daily budget for a bot with the default limits
BodyBudgeted(botId) ==
  [BaseBody(botId) EXCEPT
     !.dailyBudget = [given |-> TRUE, maxRequestsPerDay |-> J("num", 50),
                      maxTokensPerDay |-> JUndef],
     !.actions = [given |-> TRUE, actionsEnabled |-> TRUE, webhookUrl |-> HookUrl,
                  hasTypes |-> FALSE, types |-> {}]]

IsolateBots == {"a", "a:1"}
IsolateIps == {"9.9.9.9", "1:2::3", "2::3"}

IsolateInputs ==
  [PlainInputs EXCEPT
     !.bodies = {ChatBody(b, TRUE, TRUE, FALSE) : b \in IsolateBots},
     !.keys = {<<"", "">>},
     !.ips = {<<ip, "">> : ip \in IsolateIps},
     !.aiOk = BOOLEAN]

InitIsolate ==
  InitServing({1}, {Configured(<<BodyBudgeted("a"), BodyBudgeted("a:1")>>)}, NoProbe)
NextIsolate == ChatNext(1, IsolateInputs, IsolateChats)
SpecIsolate == InitIsolate /\ [][NextIsolate]_vars

\* what the cache holds under key k is the same before and after the step
C25_Same(k) ==
  /\ k \in DOMAIN KB_CACHE' <=> k \in DOMAIN KB_CACHE
  /\ k \in DOMAIN KB_CACHE => KB_CACHE'[k] = KB_CACHE[k]

\* C25 as stated: no step of a chat request for bot A from address p writes
\* the config store, and each leaves as they were the rate counter of every
\* (bot, address, window) other than (A, p, the current window) and the
\* budget record of every (bot, day) other than (A, the current UTC day).
C25_OnlyOwnCounters ==
  [][\A r \in DOMAIN chat :
       LET A == chat[r].botId
           p == chat[r].ip
           w == Bucket(Now, RlWindow(chat[r].cfg))
       IN (chat[r].pc # "idle") =>
            /\ BOT_CONFIG' = BOT_CONFIG
            /\ \A B \in IsolateBots, q \in IsolateIps, v \in {w - 1, w, w + 1} :
                 <<B, q, v>> # <<A, p, w>> => C25_Same(RateKey(B, q, v))
            /\ \A B \in IsolateBots, d \in {DayOf(Now) - 1, DayOf(Now), DayOf(Now) + 1} :
                 <<B, d>> # <<A, DayOf(Now)>>
                 => C25_Same(BudgetKey("d" \o ToString(d), B))]_vars

(***************************************************************************)
(* SpecFetch: requests, one at a time, for a bot with three knowledge      *)
(* URLs, in simple or in embed mode; each page fetch fails, yields an      *)
(* empty text or yields a text.                                            *)
(***************************************************************************)
FetchChats == 2

\* bot "a" with three knowledge URLs, all of them used for a request
BodyDocs(mode) ==
  [BaseBody("a") EXCEPT
     !.knowledgeUrls = ListOf(<<PricingUrl, ContactUrl, AboutUrl>>),
     !.ragEnabled = "true", !.ragMode = mode, !.ragMaxUrlsPerRequest = J("num", 30),
     !.actions = [given |-> TRUE, actionsEnabled |-> TRUE, webhookUrl |-> HookUrl,
                  hasTypes |-> FALSE, types |-> {}]]

PageOutcomes == {-1, 0, 500}

FetchInputs ==
  [PlainInputs EXCEPT
     !.keys = {<<"", "">>},
     !.pages = {<<x, y, z>> : x \in PageOutcomes, y \in PageOutcomes, z \in PageOutcomes},
     !.aiOk = BOOLEAN]

InitFetch ==
  InitServing({1}, {Configured(<<BodyDocs("simple")>>), Configured(<<BodyDocs("embed")>>)},
              NoProbe)
NextFetch == ChatNext(1, FetchInputs, FetchChats)
SpecFetch == InitFetch /\ [][NextFetch]_vars

\* the URLs of a sequence of URLs or of page texts
C26_Urls(l) == {l[i] : i \in 1..Len(l)}
C26_TextUrls(l) == {l[i].url : i \in 1..Len(l)}

\* the retrieval step of a request, whatever page fetches fail: it goes on to
\* prompt assembly with no response made; every chosen URL is tried; the
\* context block is made of the cached and the fetched texts only and is
\* empty when there is none (and, in simple mode, only then); the cache entry
\* of a URL whose fetch failed is left as it was
C26_RagStep ==
  [][\A r \in DOMAIN chat :
       (chat[r].pc = "rag" /\ chat'[r] # chat[r]) =>
         LET g == chat'[r].rag IN
         /\ chat'[r].pc = "assemble" /\ resp'[r] = resp[r]
         /\ C26_Urls(g.chosen) = g.hits \cup g.fetched \cup g.failed
         /\ g.failed \cap (g.hits \cup g.fetched) = {}
         /\ C26_TextUrls(g.texts) \subseteq g.hits \cup g.fetched
         /\ g.hits \subseteq C26_TextUrls(g.texts)
         /\ chat'[r].ragLen > 0 => g.texts # <<>>
         /\ (chat[r].cfg.ragMode # "embed" /\ g.texts # <<>>) => chat'[r].ragLen > 0
         /\ \A u \in g.failed : C25_Same(KbKey(u))
         /\ calls'[r].ai = 0]_vars

\* a finished request that ran the retrieval step also ran the inference call
\* and was answered 200, or 502 when that call failed
C26_AnsweredByInference ==
  \A r \in DOMAIN chat :
    (chat[r].pc = "idle" /\ \E i \in 1..Len(hist[r]) : hist[r][i] = "rag")
    => /\ \E i \in 1..Len(hist[r]) : hist[r][i] = "ai"
       /\ resp[r].status \in {200, 502}

\* C26: a failed page fetch never ends or fails a chat request: the request
\* goes on to the inference call with a context block built from the pages
\* whose text was obtained, empty if none was, and no cache entry is written
\* or overwritten for a URL whose fetch failed.
C26_FetchFailuresSkipped == C26_RagStep /\ []C26_AnsweredByInference

\* C26 witness: a request is at its inference call with a context block made
\* of a cached page and a fetched page, after the fetch of a third page, whose
\* cache entry holds an empty text, failed.
C26_Witness ==
  /\ chat[1].pc = "ai" /\ chat[1].ragLen > 0
  /\ chat[1].rag.hits # {} /\ chat[1].rag.fetched # {}
  /\ \E u \in chat[1].rag.failed :
       KbKey(u) \in DOMAIN KB_CACHE /\ KB_CACHE[KbKey(u)] = KbText(0, Now + 86400)

(***************************************************************************)
(* SpecRefresh: /admin/kb/refresh and chat requests, one request at a      *)
(* time while the clock moves on, for bot "a" with two knowledge URLs and  *)
(* bot "b" with thirty-one and retrieval not switched on.  The cache TTL   *)
(* of the bots is 60 seconds.                                              *)
(***************************************************************************)
RefreshRequests == 1
RefreshChats == 1
RefreshTicks == 4

UrlN(i) == Str(TRUE, "https", "site.example", 0, "/p" \o ToString(i))
LongListLen == 31

\* bot "a" with two knowledge URLs, both used for a request
BodyKb ==
  [BaseBody("a") EXCEPT
     !.knowledgeUrls = ListOf(<<PricingUrl, ContactUrl>>), !.ragEnabled = "true",
     !.ragCacheTtlSeconds = J("num", 600)]
\* bot "b" with a long list of knowledge URLs
BodyList ==
  [BaseBody("b") EXCEPT
     !.knowledgeUrls = ListOf([i \in 1..LongListLen |-> UrlN(i)]),
     !.ragCacheTtlSeconds = J("num", 600)]

RefreshInputs ==
  [PlainInputs EXCEPT
     !.bodies = {ChatBody("a", TRUE, TRUE, FALSE), ChatBody("b", TRUE, TRUE, FALSE)},
     !.keys = {<<"", "">>},
     !.pages = {<<500, 500>>, <<0, 500>>, <<-1, 0>>},
     !.ais = {Ai("response", PlainOut, -1)}]

InitRefresh == InitConsole({1}, {"tok"}, {Configured(<<BodyKb, BodyList>>)})
\* no request is in flight
Quiet == SetupDone /\ \A r \in DOMAIN chat : chat[r].pc = "idle"

\* a request starts, and time passes, when no request is in flight; the
\* pages of the long list all answer with a text
NextRefresh ==
  \/ \E b \in {"a", "b"} :
       Quiet /\ nUpserts < RefreshRequests /\ AdminKbBegin(1, "tok", BaseBody(b)) /\ AdminFrame
  \/ \E page \in PageOutcomes :
       (Len(adm[1].urls) > 2 => page = 500) /\ AdminKbFetch(1, page) /\ KbFrame
  \/ (SetupDone /\ ChatNext(1, RefreshInputs, RefreshChats))
  \/ (Quiet /\ TickNext(RefreshTicks))
SpecRefresh == InitRefresh /\ [][NextRefresh]_vars

\* an unexpired, non-empty page text is cached for URL u
C27_Fresh(u) ==
  /\ KbKey(u) \in DOMAIN KB_CACHE
  /\ KB_CACHE[KbKey(u)].kind = "text" /\ KB_CACHE[KbKey(u)].n > 0
  /\ Now < KB_CACHE[KbKey(u)].exp

\* the retrieval step of a chat request fetches a chosen URL only when no
\* unexpired non-empty text is cached for it, and stores the text it fetched
\* under the URL's key with the bot's configured TTL
C27_ChatFetch ==
  [][\A r \in DOMAIN chat :
       (chat[r].pc = "rag" /\ chat'[r] # chat[r]) =>
         LET g == chat'[r].rag IN
         /\ \A u \in g.fetched \cup g.failed : ~C27_Fresh(u)
         /\ \A u \in C26_Urls(g.chosen) : C27_Fresh(u) => u \in g.hits
         /\ \A u \in g.fetched :
              /\ KbKey(u) \in DOMAIN KB_CACHE'
              /\ KB_CACHE'[KbKey(u)].kind = "text"
              /\ KB_CACHE'[KbKey(u)].exp = Now + chat[r].cfg.ragCacheTtlSeconds]_vars

\* a refresh fetches every configured knowledge URL of the bot, whatever the
\* cache holds, and each fetch that succeeds overwrites the URL's entry
C27_RefreshAll ==
  [][\A a \in DOMAIN adm :
       (adm[a].pc = "kb" /\ adm'[a] # adm[a]) =>
         LET u == adm[a].urls[1]
             cfg == StoredCfg(adm[a].body.botId)
         IN /\ KB_CACHE' # KB_CACHE =>
                 /\ KB_CACHE'[KbKey(u)].kind = "text"
                 /\ KB_CACHE'[KbKey(u)].exp = Now + cfg.ragCacheTtlSeconds
            /\ adm'[a].pc = "idle" =>
                 /\ admResp'[a].status = 200
                 /\ admResp'[a].fetches = Len(cfg.knowledgeUrls)]_vars

\* the first chat request of the bot after a refresh whose fetches all
\* succeeded finds its pages in the cache and fetches none
C27_FirstChatUsesRefreshed ==
  [][\A r \in DOMAIN chat, a \in DOMAIN admResp :
       (/\ chat[r].pc = "rag" /\ chat'[r] # chat[r]
        /\ adm[a].pc = "idle"
        /\ admResp[a].route = "kb" /\ admResp[a].status = 200
        /\ admResp[a].refreshed = admResp[a].fetches /\ admResp[a].fetches > 0
        /\ admResp[a].botId = chat[r].botId
        /\ nChats = admResp[a].chats + 1)
       => /\ calls'[r].fetch = 0
          /\ chat'[r].rag.hits = C26_Urls(chat'[r].rag.chosen)]_vars

\* C27 as stated: the chat path fetches a knowledge URL only when no
\* unexpired non-empty entry is cached for it and stores the text with the
\* bot's TTL; /admin/kb/refresh fetches every configured URL of the bot
\* whatever the cache holds and overwrites the entries; the first chat
\* request after a successful refresh uses the refreshed text and fetches
\* nothing.
C27_CacheAndRefresh == C27_ChatFetch /\ C27_RefreshAll /\ C27_FirstChatUsesRefreshed


(***************************************************************************)
(* SpecBound: requests, one at a time, for a bot in embed mode with six    *)
(* knowledge URLs whose pages fail, are short or are as long as a page     *)
(* gets.  The stored record is a normalised one or one written to the      *)
(* store with retrieval fields out of range.                               *)
(***************************************************************************)
BoundChats == 2

\* bot "a" with six knowledge URLs and the largest retrieval settings
BodySix ==
  [BaseBody("a") EXCEPT
     !.knowledgeUrls = ListOf([i \in 1..6 |-> UrlN(i)]),
     !.ragEnabled = "true", !.ragMode = "embed",
     !.ragMaxUrlsPerRequest = J("num", 50), !.ragTopKChunks = J("num", 80),
     !.ragChunkChars = J("num", 3000),
     !.actions = [given |-> TRUE, actionsEnabled |-> TRUE, webhookUrl |-> HookUrl,
                  hasTypes |-> FALSE, types |-> {}]]

\* the record of bot "a" with ragMaxUrlsPerRequest, ragTopKChunks and
\* ragChunkChars set to the given numbers
RawStore(maxUrls, topK, chunkChars) ==
  LET s == Configured(<<BodySix>>)
  IN KvPut(s, CfgKey("a"),
           CfgValue([ExistingOf(s[CfgKey("a")]) EXCEPT
                       !.ragMaxUrlsPerRequest = maxUrls, !.ragTopKChunks = topK,
                       !.ragChunkChars = chunkChars]))

BoundInputs ==
  [PlainInputs EXCEPT
     !.keys = {<<"", "">>},
     !.pages = {[i \in 1..6 |-> x] : x \in {-1, 100, 60000}}
               \cup {<<60000, 100, -1, 60000, 700, 60000>>},
     !.works = BOOLEAN]

InitBound ==
  InitServing({1}, {Configured(<<BodySix>>), RawStore(50, 100, 100000), RawStore(6, -5, 0)},
              NoProbe)
NextBound == ChatNext(1, BoundInputs, BoundChats)
SpecBound == InitBound /\ [][NextBound]_vars

\* C28: whatever the stored record holds in its retrieval fields, the
\* retrieval step of one chat request fetches at most 5 knowledge URLs, cuts
\* each page into at most 24 chunks of at most 2000 characters, asks for the
\* embedding of at most 1 + 5 * 24 texts and puts at most 8 chunks into the
\* context block.
C28_BoundedRetrieval ==
  [][\A r \in DOMAIN chat :
       (chat[r].pc = "rag" /\ chat'[r] # chat[r]) =>
         LET g == chat'[r].rag IN
         /\ calls'[r].fetch - calls[r].fetch <= 5
         /\ Len(g.chosen) <= 5 /\ Len(g.texts) <= 5
         /\ g.perPage <= 24 /\ g.chunks <= 5 * 24
         /\ g.size <= 2000
         /\ g.asked <= 1 + 5 * 24
         /\ calls'[r].embed - calls[r].embed <= 1 + 5 * 24
         /\ g.picked <= 8]_vars

\* C28 witness: a request for the bot whose stored record asks for 50 URLs,
\* 100 chunks and chunks of 100000 characters has fetched 5 pages, cut a page
\* into 24 chunks of 2000 characters, asked for 121 embeddings and put 8
\* chunks into its context block.
C28_Witness ==
  /\ StoredCfg("a").ragMaxUrlsPerRequest = 50
  /\ chat[1].pc = "assemble" /\ chat[1].rag.kind = "ranked"
  /\ calls[1].fetch = 5 /\ chat[1].rag.perPage = 24 /\ chat[1].rag.size = 2000
  /\ chat[1].rag.asked = 121 /\ calls[1].embed = 121 /\ chat[1].rag.picked = 8
(***************************************************************************)
(* SpecClient: requests, one at a time, of every kind that is answered     *)
(* with a client error, and requests that are served, for bot "a" with a   *)
(* key, an origin allow-list, a rate limit and a daily budget.             *)
(***************************************************************************)
ClientChats == 3

ClientInputs ==
  [PlainInputs EXCEPT
     !.bodies = {ChatBody("a", TRUE, TRUE, TRUE), ChatBody("zz", TRUE, TRUE, FALSE),
                 ChatBody("a", TRUE, FALSE, FALSE), ChatBody("", TRUE, TRUE, FALSE),
                 ChatBody("a", FALSE, FALSE, FALSE)},
     !.keys = {<<"k1", "">>, <<"bad", "">>},
     !.headers = {Hdr(EmptyStr, "", "", ""), Hdr(SiteOrigin, "", "", ""),
                  Hdr(EvilOrigin, "", "", "")},
     !.msgs = {Hello, NoTurns},
     !.aiOk = BOOLEAN]

InitClient == InitServing({1}, {Configured(<<BodyA1>>)}, NoProbe)
NextClient == ChatNext(1, ClientInputs, ClientChats)
SpecClient == InitClient /\ [][NextClient]_vars

\* the request answered last in slot r got a client error
C29_ClientError(r) == chat[r].pc = "idle" /\ resp[r].status \in {400, 401, 403, 404}

\* the request of slot r got as far as the check of its conversation turns
C29_TurnsChecked(r) == hist[r] # <<>> /\ hist[r][Len(hist[r])] = "sanitize"

\* C29 as stated: a chat request answered with a client error (400, 401,
\* 403, 404) has written no rate-limit counter and no budget record and has
\* made no page fetch, embedding call or inference call.
C29_ClientErrorsLeaveNoTrace ==
  \A r \in DOMAIN chat : C29_ClientError(r) => calls[r] = NoCalls

\* every write of a rate-limit counter or of a budget record is counted for
\* the request that makes it
C29_PutsCounted ==
  [][\A k \in DOMAIN KB_CACHE' :
       (/\ KB_CACHE'[k].kind \in {"count", "budget"}
        /\ (k \notin DOMAIN KB_CACHE \/ KB_CACHE'[k] # KB_CACHE[k]))
       => \E r \in DOMAIN calls :
            calls'[r].rlPut + calls'[r].budPut = calls[r].rlPut + calls[r].budPut + 1]_vars

\* a request answered with a client error has made no outbound call and has
\* written no budget record; it has written its rate-limit counter, once,
\* exactly when the error is the 400 for a request without valid messages
C29_ErrorTrace ==
  \A r \in DOMAIN chat :
    C29_ClientError(r) =>
      /\ calls[r].fetch = 0 /\ calls[r].embed = 0 /\ calls[r].ai = 0 /\ calls[r].webhook = 0
      /\ calls[r].budPut = 0
      /\ calls[r].rlPut = (IF C29_TurnsChecked(r) THEN 1 ELSE 0)
      /\ C29_TurnsChecked(r) => resp[r].status = 400

\* C29, amended: a chat request answered 400 for a malformed body or a
\* missing field, 401, 403 or 404 leaves every rate-limit counter and every
\* budget record unchanged and makes no page fetch, embedding call or
\* inference call; a request answered 400 for having no valid messages has
\* been counted once in its rate-limit counter, and otherwise leaves the
\* budget records unchanged and makes none of these calls.
C29_EarlyErrorsLeaveNoTrace == C29_PutsCounted /\ []C29_ErrorTrace

\* C29 witness: a request for the budgeted bot that passed the rate limit
\* and the budget check was answered 400 because none of its messages was
\* valid, after its rate-limit counter was written.
C29_Witness ==
  /\ C29_ClientError(1) /\ C29_TurnsChecked(1) /\ resp[1].status = 400
  /\ calls[1].rlPut = 1
  /\ StoredCfg("a").dailyBudget.set
  /\ \E k \in DOMAIN KB_CACHE : KB_CACHE[k].kind = "count" /\ KB_CACHE[k].n >= 1
(***************************************************************************)
(* SpecStale: requests of one address in flight at the same time for a     *)
(* bot whose rate limit and daily budget they do not exhaust, while the    *)
(* clock moves on.                                                         *)
(***************************************************************************)
StaleChats == 3
StaleTicks == 1

\* bot "a" with 5 requests a minute and 5 requests and 4000 tokens a day
BodyRoomy ==
  [BaseBody("a") EXCEPT
     !.rateLimit = [limit |-> J("num", 50), windowSeconds |-> J("num", 600)],
     !.dailyBudget = [given |-> TRUE, maxRequestsPerDay |-> J("num", 50),
                      maxTokensPerDay |-> J("num", 40000)],
     !.actions = [given |-> TRUE, actionsEnabled |-> TRUE, webhookUrl |-> HookUrl,
                  hasTypes |-> FALSE, types |-> {}]]

StaleInputs ==
  [PlainInputs EXCEPT !.keys = {<<"", "">>}]

InitStale == InitServing(Slots, {Configured(<<BodyRoomy>>)}, NoProbe)
NextStale ==
  \/ \E r \in Slots : ChatNext(r, StaleInputs, StaleChats)
  \/ TickNext(StaleTicks)
SpecStale == InitStale /\ [][NextStale]_vars

\* the stored value of a counter key, as its readers see it
C30_Stored(k) == KbGet(k)

\* C30 as stated: while its key is live, the count stored for a rate-limit
\* key and the requests and tokens stored in a budget record never decrease,
\* whatever the interleaving of the requests.
C30_CountersNeverDecrease ==
  [][\A k \in DOMAIN KB_CACHE :
       (KB_CACHE[k].kind \in {"count", "budget"} /\ Now < KB_CACHE[k].exp)
       => /\ KB_CACHE'[k].n >= KB_CACHE[k].n
          /\ KB_CACHE'[k].tokens >= KB_CACHE[k].tokens]_vars

\* a put of a rate-limit counter stores one more than the count its request
\* read, so that it lowers the stored count only when another request has
\* written the key since that read
C30_RatePut ==
  [][\A r \in DOMAIN chat :
       (chat[r].pc = "rateput" /\ chat'[r] # chat[r]) =>
         LET k == chat[r].rlKey
             stored == RlCurrent(C30_Stored(k))
         IN /\ KB_CACHE'[k].n = chat[r].current + 1
            /\ \A x \in DOMAIN KB_CACHE : x # k => C25_Same(x)
            /\ KB_CACHE'[k].n < stored => stored > chat[r].current
            /\ stored = chat[r].current => KB_CACHE'[k].n = stored + 1]_vars

\* a put of a budget record stores the requests its request read plus one
\* and the tokens it read plus the tokens of its call
C30_BudgetPut ==
  [][\A r \in DOMAIN chat :
       (chat[r].pc = "charge" /\ chat'[r] # chat[r] /\ chat[r].bud.tracked) =>
         LET k == BudgetKey(chat[r].bud.dayKey, chat[r].botId)
             stored == BudgetStateOf(C30_Stored(k))
             add == totalTokensEstimate(chat[r].ai, chat[r].input)
         IN /\ KB_CACHE'[k].n = chat[r].bud.requests + 1
            /\ KB_CACHE'[k].tokens = chat[r].bud.tokens + add /\ add >= 0
            /\ \A x \in DOMAIN KB_CACHE : x # k => C25_Same(x)
            /\ KB_CACHE'[k].n < stored.requests => stored.requests > chat[r].bud.requests
            /\ KB_CACHE'[k].tokens < stored.tokens => stored.tokens > chat[r].bud.tokens]_vars

\* the steps other than these two puts leave the counters as they are
C30_OnlyPuts ==
  [][\A k \in DOMAIN KB_CACHE' :
       (/\ KB_CACHE'[k].kind \in {"count", "budget"}
        /\ (k \notin DOMAIN KB_CACHE \/ KB_CACHE'[k] # KB_CACHE[k]))
       => \E r \in DOMAIN chat : chat[r].pc \in {"rateput", "charge"} /\ chat'[r] # chat[r]]_vars

\* C30, amended: every put of a rate-limit counter stores one more than the
\* count its request read, and every put of a budget record the requests
\* read plus one and the tokens read plus those of the call; nothing else
\* writes a counter.  A stored count therefore never decreases when no other
\* request writes the key between a request's read and its put, and under
\* interleaving it decreases only by such a put made from a stale read.
C30_DecreaseOnlyFromStaleRead == C30_RatePut /\ C30_BudgetPut /\ C30_OnlyPuts

\* C30 witness: three requests have passed the rate-limit step of one
\* window and none of them has its put outstanding; the one of slot 1, which
\* had read the count 0, made the last put, and the live counter holds 1.
C30_Witness ==
  /\ chat[1].pc = "budget" /\ chat[1].current = 0
  /\ chat[2].pc # "rateput"
  /\ C30_Stored(chat[1].rlKey).kind = "count" /\ C30_Stored(chat[1].rlKey).n = 1
  /\ \E lk \in DOMAIN rlLog : rlLog[lk].passed = 3
====
